---------------------------- MODULE Spec2Model ----------------------------
(***************************************************************************)
(* A model of the N-Triples dictionary compressor, its two-thread          *)
(* pipeline, the frozen dictionary, the compressed triple store and the    *)
(* random_distinct triple generator of sparql-update-data-generator.       *)
(*                                                                         *)
(* Bytes are naturals (their ASCII codes).  A term, a line and the         *)
(* decompressor's output are sequences of bytes.  A TermId and a TripleId  *)
(* are hashes: numbers below HashSpace, which stands for 2^64.             *)
(***************************************************************************)
EXTENDS Integers, Sequences, FiniteSets, TLC

(***************************************************************************)
(* Bounds of the model.                                                    *)
(***************************************************************************)
\* the hash space (2^64 in the program): ids are 0 .. HashSpace - 1
HashSpace == 8
\* the longest input file, in lines
MaxLines == 2
\* the number of input paths (and so of compressed files)
MaxFiles == 2
\* the records of a mapped compressed file
MaxRecords == 3
\* the greatest id in the triples of a mapped compressed file
MaxId == 1
\* the greatest n_total_query_triples of a generator
MaxTotal == 3
\* the greatest size_hint of a call
MaxHint == 2
\* the calls of a generator
MaxCalls == 3
\* the query specs of a generate run
MaxSpecs == 3
\* the slots of a generate run
MaxSlots == 4
\* the greatest n_queries of a query spec
MaxQueries == 2
\* the greatest n_triples_per_query of a query spec
MaxSize == 2
\* the inputs of a replicate run
MaxInputs == 2
\* the triples of an input of a replicate run, and of an exclude dataset
MaxInputLen == 2
\* the changesets of a changeset generator
MaxChangesets == 3
\* the triples of a changeset, and of the main dataset
MaxChangesetLen == 2

(***************************************************************************)
(* Bytes the code names.                                                   *)
(***************************************************************************)
\* b'\n'
NL == 10
\* b' '
SP == 32
\* b'#'
HASH == 35
\* b'.'
DOT == 46
\* b'_'
USCORE == 95
\* size_of::<(TripleElementId, usize, usize)>() and of one compressed triple
RecordSize == 24
\* size_of::<usize>()
WordSize == 8

(***************************************************************************)
(* Helpers on sequences.                                                   *)
(***************************************************************************)
Range(s) == {s[i] : i \in 1 .. Len(s)}

\* s[a..b) as Rust writes it, with 0-based a and b
Slice(s, a, b) == [i \in 1 .. (b - a) |-> s[a + i]]

StartsWith(s, b) == Len(s) >= 1 /\ s[1] = b

EndsWith(s, suffix) ==
    /\ Len(s) >= Len(suffix)
    /\ \A i \in 1 .. Len(suffix) : s[Len(s) - Len(suffix) + i] = suffix[i]

\* the 1-based position of the first byte b of s at or after position from,
\* 0 when there is none
RECURSIVE IndexOf(_, _, _)
IndexOf(s, b, from) ==
    IF from > Len(s) THEN 0
    ELSE IF s[from] = b THEN from
    ELSE IndexOf(s, b, from + 1)

RECURSIVE Concat(_)
Concat(ss) == IF ss = <<>> THEN <<>> ELSE Head(ss) \o Concat(Tail(ss))

(***************************************************************************)
(* The input lines of the model: what reader.split(b'\n') may yield.       *)
(* 97 = a, 98 = b, 99 = c, 105 = i, 112 = p.                               *)
(***************************************************************************)
LineABC == <<97, SP, 112, SP, 98, SP, DOT>>
\* no term but a and p in common with a p b, and no id or hash
LineAPC == <<97, SP, 112, SP, 99, SP, DOT>>
\* the subject i has the TermId of a (a hash collision)
LineIBC == <<105, SP, 112, SP, 98, SP, DOT>>
\* the triple (b, p, a) has the TripleId of (a, p, b)
LineBPA == <<98, SP, 112, SP, 97, SP, DOT>>
\* two spaces after the subject: the predicate is empty, the object is "p b"
LineWide == <<97, SP, SP, 112, SP, 98, SP, DOT>>
LineBlankSubject == <<USCORE, SP, 112, SP, 98, SP, DOT>>
LineBlankObject == <<97, SP, 112, SP, USCORE, SP, DOT>>
LineEmpty == <<>>
LineComment == <<HASH, 97>>
\* no " ." at the end: the assertion of compressor.rs:169 fails
LineNoDot == <<97, SP, 112, SP, 98>>
\* one space only: split.next().unwrap() fails
LineShort == <<97, SP, 112>>

Lines ==
    { LineABC, LineAPC, LineIBC, LineBPA, LineWide, LineBlankSubject, LineBlankObject,
      LineEmpty, LineComment, LineNoDot, LineShort }

RECURSIVE SeqsUpTo(_, _)
SeqsUpTo(S, n) ==
    IF n = 0 THEN {<<>>}
    ELSE LET shorter == SeqsUpTo(S, n - 1)
         IN  shorter \cup {Append(s, x) : s \in {t \in shorter : Len(t) = n - 1}, x \in S}

\* the contents an input file may have
InputFiles == SeqsUpTo(Lines, MaxLines)

(***************************************************************************)
(* hash_single: a deterministic hash of a byte slice or of a triple of     *)
(* ids.  The program's is aHash to 64 bits; the model's folds the elements *)
(* into HashSpace values.  Neither is injective.                           *)
(***************************************************************************)
RECURSIVE HashFold(_, _)
HashFold(h, s) ==
    IF s = <<>> THEN h
    ELSE HashFold((h * 31 + Head(s)) % HashSpace, Tail(s))

hash_single(to_hash) == HashFold(0, to_hash)

(***************************************************************************)
(* The raw splitter of compress_raw_rdf_triple_file, one line.             *)
(***************************************************************************)
\* line.splitn(3, |&b| b == b' '): at most three pieces, cut at the first two spaces
splitn3(line) ==
    LET i == IndexOf(line, SP, 1)
        j == IF i = 0 THEN 0 ELSE IndexOf(line, SP, i + 1)
    IN  IF i = 0 THEN <<line>>
        ELSE IF j = 0 THEN <<Slice(line, 0, i - 1), Slice(line, i, Len(line))>>
        ELSE <<Slice(line, 0, i - 1), Slice(line, i, j - 1), Slice(line, j, Len(line))>>

\* RawLine with the blank-node test on the subject alone
RawLineSubjectOnly(line) ==
    IF line = <<>> \/ StartsWith(line, HASH) THEN [kind |-> "skip"]
    ELSE LET split == splitn3(line)
         IN  IF Len(split) < 3 \/ ~EndsWith(split[3], <<SP, DOT>>) THEN [kind |-> "panic"]
             ELSE IF StartsWith(split[1], USCORE) THEN [kind |-> "skip"]
             ELSE [kind |-> "triple",
                   terms |-> <<split[1], split[2], Slice(split[3], 0, Len(split[3]) - 2)>>]

\* what one iteration of the loop does with a line: "skip" (continue),
\* "panic" (an unwrap or the assertion fails) or "triple" with the three terms
RawLine(line) ==
    IF line = <<>> \/ StartsWith(line, HASH) THEN [kind |-> "skip"]
    ELSE LET split == splitn3(line)
         IN  IF Len(split) < 3 THEN [kind |-> "panic"]
             ELSE LET subject == split[1]
                      predicate == split[2]
                      object == split[3]
                  IN  IF ~EndsWith(object, <<SP, DOT>>) THEN [kind |-> "panic"]
                      ELSE LET obj == Slice(object, 0, Len(object) - 2)
                           IN  IF StartsWith(subject, USCORE) \/ StartsWith(obj, USCORE)
                               THEN [kind |-> "skip"]
                               ELSE [kind |-> "triple", terms |-> <<subject, predicate, obj>>]

(***************************************************************************)
(* The parsing path, one parse_step.  The N-Triples parser is a library:   *)
(* it reports a malformed record as an error (printed, and parsing goes    *)
(* on), yields nothing for an empty line or a comment, and the callback    *)
(* drops a triple whose subject or object is a blank node.                 *)
(***************************************************************************)
ParsedLine(line) ==
    IF line = <<>> \/ StartsWith(line, HASH) THEN [kind |-> "skip"]
    ELSE LET split == splitn3(line)
         IN  IF Len(split) < 3 \/ split[1] = <<>> \/ split[2] = <<>>
                \/ ~EndsWith(split[3], <<SP, DOT>>) \/ Len(split[3]) < 3
             THEN [kind |-> "error"]
             ELSE LET obj == Slice(split[3], 0, Len(split[3]) - 2)
                  IN  IF StartsWith(split[1], USCORE) \/ StartsWith(obj, USCORE)
                      THEN [kind |-> "skip"]
                      ELSE [kind |-> "triple", terms |-> <<split[1], split[2], obj>>]

(***************************************************************************)
(* The mutable dictionary: translations, a BTreeMap from TermId to bytes,  *)
(* modelled as a function whose domain is the set of keys.                 *)
(***************************************************************************)
EmptyMap == [k \in {} |-> <<>>]

\* entry(hash).or_insert with the new bytes put in place of the present ones
or_insert_replace(translations, hash, bytes) ==
    [k \in DOMAIN translations \cup {hash} |->
        IF k = hash THEN bytes ELSE translations[k]]

\* translations.entry(hash).or_insert_with(|| bytes): the first bytes stay
or_insert(translations, hash, bytes) ==
    IF hash \in DOMAIN translations THEN translations
    ELSE [k \in DOMAIN translations \cup {hash} |->
            IF k = hash THEN bytes ELSE translations[k]]

\* BTreeMap::insert: the new bytes replace the old
insert(translations, hash, bytes) ==
    [k \in DOMAIN translations \cup {hash} |->
        IF k = hash THEN bytes ELSE translations[k]]

\* the ids of the three terms
TripleOf(terms) == <<hash_single(terms[1]), hash_single(terms[2]), hash_single(terms[3])>>

\* compress_raw_rdf_triple that hashes the terms and interns none
compress_raw_rdf_triple_hash_only(translations, terms) == translations

\* compress_raw_rdf_triple: the dictionary after interning the three terms
compress_raw_rdf_triple(translations, terms) ==
    LET t == TripleOf(terms)
    IN  or_insert(or_insert(or_insert(translations, t[1], terms[1]), t[2], terms[2]),
                  t[3], terms[3])

\* compress_parsed_rdf_triple: the same on the parser's terms
compress_parsed_rdf_triple(translations, terms) ==
    LET t == TripleOf(terms)
    IN  or_insert(or_insert(or_insert(translations, t[1], terms[1]), t[2], terms[2]),
                  t[3], terms[3])

\* found_new_triple taking every triple for new
found_new_triple_always(dedup, triple) == TRUE

\* found_new_triple: HashSet::insert returns whether the hash was absent
found_new_triple(dedup, triple) == hash_single(triple) \notin dedup

\* the keys in descending order
RECURSIVE Descending(_)
Descending(S) ==
    IF S = {} THEN <<>>
    ELSE LET m == CHOOSE x \in S : \A y \in S : x >= y
         IN  <<m>> \o Descending(S \ {m})

\* the keys of a BTreeMap in iteration order: ascending
RECURSIVE Ascending(_)
Ascending(S) ==
    IF S = {} THEN <<>>
    ELSE LET m == CHOOSE x \in S : \A y \in S : x <= y
         IN  <<m>> \o Ascending(S \ {m})

(***************************************************************************)
(* The dictionary file.  A cell of the model's file is one u64 of the      *)
(* header part (WordSize bytes) or one byte of the data segment:           *)
(*   [header_byte_size] [(id, start, end) x N] [data segment].             *)
(***************************************************************************)
\* the header records save_state writes, for the keys in iteration order
RECURSIVE HeaderRecords(_, _, _)
HeaderRecords(translations, keys, data_segment_off) ==
    IF keys = <<>> THEN <<>>
    ELSE LET hash == Head(keys)
             end == data_segment_off + Len(translations[hash])
         IN  <<hash, data_segment_off, end>>
                 \o HeaderRecords(translations, Tail(keys), end)

RECURSIVE DataSegment(_, _)
DataSegment(translations, keys) ==
    IF keys = <<>> THEN <<>>
    ELSE translations[Head(keys)] \o DataSegment(translations, Tail(keys))

\* save_state: the cells of the file (the flush of bw, dropped at the end, is
\* taken to succeed)
save_state(translations) ==
    LET keys == Ascending(DOMAIN translations)
        header_size == Cardinality(DOMAIN translations) * RecordSize
    IN  <<header_size>> \o HeaderRecords(translations, keys, 0)
                        \o DataSegment(translations, keys)

\* load_state: the header mapped at byte offset size_of::<usize>() with
\* byte length header_size, the data segment mapped after it (the mapping is
\* the memory_mapped crate's, taken to map any range of the file, also an
\* empty one)
load_state(cells) ==
    LET header_size == cells[1]
        first == WordSize \div WordSize
        words == header_size \div WordSize
        n == header_size \div RecordSize
    IN  [header |-> [i \in 1 .. n |->
                        << cells[first + 3 * (i - 1) + 1],
                           cells[first + 3 * (i - 1) + 2],
                           cells[first + 3 * (i - 1) + 3] >>],
         data_segment |-> Slice(cells, first + words, Len(cells))]

\* from_decompressor: every header record's byte range copied into a new map
RECURSIVE from_decompressor_loop(_, _, _)
from_decompressor_loop(translations, header, data_segment) ==
    IF header = <<>> THEN translations
    ELSE LET rec == Head(header)
         IN  from_decompressor_loop(
                 insert(translations, rec[1], Slice(data_segment, rec[2], rec[3])),
                 Tail(header), data_segment)

\* from_decompressor giving a dictionary without entries
from_decompressor_empty(frozen) == EmptyMap

from_decompressor(frozen) ==
    from_decompressor_loop(EmptyMap, frozen.header, frozen.data_segment)

(***************************************************************************)
(* The decompressor.                                                       *)
(***************************************************************************)
\* header.binary_search_by_key(&hash, |(h, _, _)| *h): the index found, 0 for none
RECURSIVE binary_search_by_key(_, _, _, _)
binary_search_by_key(header, hash, left, right) ==
    IF left >= right THEN 0
    ELSE LET mid == left + (right - left) \div 2
             h == header[mid + 1][1]
         IN  IF h < hash THEN binary_search_by_key(header, hash, mid + 1, right)
             ELSE IF h > hash THEN binary_search_by_key(header, hash, left, mid)
             ELSE mid + 1

search_header(frozen, hash) ==
    binary_search_by_key(frozen.header, hash, 0, Len(frozen.header))

\* decompress_rdf_triple: None, or the three slices of the data segment
decompress_rdf_triple(frozen, triple) ==
    LET ix == [k \in 1 .. 3 |-> search_header(frozen, triple[k])]
    IN  IF \E k \in 1 .. 3 : ix[k] = 0 THEN [some |-> FALSE, terms |-> <<>>]
        ELSE [some |-> TRUE,
              terms |-> [k \in 1 .. 3 |->
                  Slice(frozen.data_segment, frozen.header[ix[k]][2],
                        frozen.header[ix[k]][3])]]

\* decompress_rdf_triple_file: the bytes written to out, or a panic at the
\* first triple with an unknown id (.expect)
RECURSIVE decompress_rdf_triple_file(_, _)
decompress_rdf_triple_file(frozen, in_triples) ==
    IF in_triples = <<>> THEN [status |-> "ok", bytes |-> <<>>]
    ELSE LET d == decompress_rdf_triple(frozen, Head(in_triples))
         IN  IF ~d.some THEN [status |-> "panic", bytes |-> <<>>]
             ELSE LET rest == decompress_rdf_triple_file(frozen, Tail(in_triples))
                  IN  IF rest.status = "panic" THEN rest
                      ELSE [status |-> "ok",
                            bytes |-> d.terms[1] \o <<SP>> \o d.terms[2] \o <<SP>>
                                      \o d.terms[3] \o <<SP, DOT, NL>> \o rest.bytes]

(***************************************************************************)
(* CompressedRdfTriples: a compressed file mapped as an array of triples.  *)
(***************************************************************************)
\* the ids and the triples of the model's compressed files
TripleIds == 0 .. MaxId
CompressedTriples == {<<s, p, o>> : s \in TripleIds, p \in TripleIds, o \in TripleIds}
\* the contents a compressed file may have
CompressedFiles == SeqsUpTo(CompressedTriples, MaxRecords)

\* cmp with the subject alone compared
cmp_subject(a, b) ==
    IF a[1] < b[1] THEN "Less" ELSE IF a[1] > b[1] THEN "Greater" ELSE "Equal"

\* Ord::cmp of [u64; 3]: the first position that differs decides
cmp(a, b) ==
    IF a[1] # b[1] THEN (IF a[1] < b[1] THEN "Less" ELSE "Greater")
    ELSE IF a[2] # b[2] THEN (IF a[2] < b[2] THEN "Less" ELSE "Greater")
    ELSE IF a[3] # b[3] THEN (IF a[3] < b[3] THEN "Less" ELSE "Greater")
    ELSE "Equal"

\* slice::binary_search as a bisection of the range left .. right: the index
\* found (from 1), 0 for Err
RECURSIVE binary_search(_, _, _, _)
binary_search(v, x, left, right) ==
    IF left >= right THEN 0
    ELSE LET mid == left + (right - left) \div 2
             c == cmp(v[mid + 1], x)
         IN  IF c = "Less" THEN binary_search(v, x, mid + 1, right)
             ELSE IF c = "Greater" THEN binary_search(v, x, left, mid)
             ELSE mid + 1

\* CompressedRdfTriples::contains
contains(v, triple) == binary_search(v, triple, 0, Len(v)) # 0

\* slice::is_sorted: no element greater than its successor
is_sorted(v) == \A i \in 1 .. (Len(v) - 1) : cmp(v[i], v[i + 1]) # "Greater"

\* a sequence without its i-th element
Without(v, i) == SubSeq(v, 1, i - 1) \o SubSeq(v, i + 1, Len(v))

\* sort_unstable that leaves the slice as it is
sort_unstable_nothing(v) == v

\* slice::sort_unstable: the elements in ascending order of cmp (equal
\* elements are the same triple, so the result is one)
RECURSIVE sort_unstable(_)
sort_unstable(v) ==
    IF v = <<>> THEN <<>>
    ELSE LET i == CHOOSE i \in 1 .. Len(v) :
                      \A j \in 1 .. Len(v) : cmp(v[i], v[j]) # "Greater"
         IN  <<v[i]>> \o sort_unstable(Without(v, i))

(***************************************************************************)
(* random_distinct_triple_generator.                                       *)
(***************************************************************************)
\* rand::seq::index::sample(rng, length, amount): amount distinct indices of
\* 0 .. length - 1, any such set; sorted by ixs.sort_unstable()
Samples(length, amount) ==
    {Ascending(S) : S \in {T \in SUBSET (0 .. (length - 1)) : Cardinality(T) = amount}}

\* the closure with an itr that starts over at every call
next_batch_restart(triples, ixs, taken, size_hint) ==
    LET n == IF size_hint <= Len(ixs) THEN size_hint ELSE Len(ixs)
    IN  [k \in 1 .. n |-> triples[ixs[k] + 1]]

\* the closure, the indices taken being those after the first taken of ixs:
\* the triples of the next size_hint indices, fewer when itr ends
next_batch(triples, ixs, taken, size_hint) ==
    LET n == IF size_hint <= Len(ixs) - taken THEN size_hint ELSE Len(ixs) - taken
    IN  [k \in 1 .. n |-> triples[ixs[taken + k] + 1]]

(***************************************************************************)
(* generate_queries: the slots of a run and their order (sparql.rs).       *)
(* A slot is [size, query_type], the tuple (n_triples_per_query,           *)
(* query_type) of the code.                                                *)
(***************************************************************************)
\* the orders of OutputOrder
OutputOrders ==
    { "AsSpecified", "Randomized", "SortedSizeAsc", "SortedSizeDesc",
      "SortedSizeAscAlternateInsertDelete" }

\* QueryType derives Ord: InsertData < DeleteData
QueryTypeRank(query_type) == IF query_type = "InsertData" THEN 0 ELSE 1

\* std::iter::repeat(x).take(n)
repeat_take(x, n) == [i \in 1 .. n |-> x]

\* the flat_map over query_specs: every spec gives n_queries slots
RECURSIVE expand(_)
expand(query_specs) ==
    IF query_specs = <<>> THEN <<>>
    ELSE LET spec == Head(query_specs)
         IN  repeat_take([size |-> spec.n_triples_per_query, query_type |-> spec.query_type],
                         spec.n_queries)
                 \o expand(Tail(query_specs))

\* slice::sort_by_key, a stable sort: of the slots with the least key the
\* first comes first
RECURSIVE sort_by_key(_, _)
sort_by_key(v, keys) ==
    IF v = <<>> THEN <<>>
    ELSE LET i == CHOOSE i \in 1 .. Len(v) :
                      /\ \A j \in 1 .. Len(v) : keys[i] <= keys[j]
                      /\ \A j \in 1 .. (i - 1) : keys[j] > keys[i]
         IN  <<v[i]>> \o sort_by_key(Without(v, i), Without(keys, i))

\* the key of |&(size, _)| size, and of Reverse(size)
SizeKeys(tmp) == [i \in 1 .. Len(tmp) |-> tmp[i].size]
ReverseSizeKeys(tmp) == [i \in 1 .. Len(tmp) |-> 0 - tmp[i].size]
\* Ord of the tuple (size, query_type): the size first, then the type
TupleKeys(tmp) == [i \in 1 .. Len(tmp) |-> 2 * tmp[i].size + QueryTypeRank(tmp[i].query_type)]

\* Iterator::partition: the slots that satisfy the predicate, in order, and
\* the others, in order
RECURSIVE SelectType(_, _)
SelectType(tmp, query_type) ==
    IF tmp = <<>> THEN <<>>
    ELSE IF Head(tmp).query_type = query_type
         THEN <<Head(tmp)>> \o SelectType(Tail(tmp), query_type)
         ELSE SelectType(Tail(tmp), query_type)

\* ins.into_iter().zip(del).flat_map(|(i, d)| [i, d]): zip ends with the
\* shorter list
RECURSIVE zip_flat(_, _)
zip_flat(ins, del) ==
    IF ins = <<>> \/ del = <<>> THEN <<>>
    ELSE <<Head(ins), Head(del)>> \o zip_flat(Tail(ins), Tail(del))

\* the permutations of a sequence: what shuffle may leave
RECURSIVE Shuffles(_)
Shuffles(v) ==
    IF v = <<>> THEN {<<>>}
    ELSE UNION {{<<v[i]>> \o w : w \in Shuffles(Without(v, i))} : i \in 1 .. Len(v)}

\* alternate without tmp.sort_unstable()
alternate_as_specified(tmp) ==
    zip_flat(SelectType(tmp, "InsertData"), SelectType(tmp, "DeleteData"))

\* the arm of SortedSizeAscAlternateInsertDelete after the length test
alternate(tmp) ==
    LET sorted == sort_by_key(tmp, TupleKeys(tmp))
        ins == SelectType(sorted, "InsertData")
        del == SelectType(sorted, "DeleteData")
    IN  zip_flat(ins, del)

\* the match on order: the set of results ("err" for the InvalidInput error)
reorder(tmp, order) ==
    CASE order = "AsSpecified" -> {[status |-> "ok", tmp |-> tmp]}
      [] order = "Randomized" -> {[status |-> "ok", tmp |-> w] : w \in Shuffles(tmp)}
      [] order = "SortedSizeAsc" ->
            {[status |-> "ok", tmp |-> sort_by_key(tmp, SizeKeys(tmp))]}
      [] order = "SortedSizeDesc" ->
            {[status |-> "ok", tmp |-> sort_by_key(tmp, ReverseSizeKeys(tmp))]}
      [] order = "SortedSizeAscAlternateInsertDelete" ->
            IF Len(tmp) % 2 # 0 THEN {[status |-> "err", tmp |-> <<>>]}
            ELSE {[status |-> "ok", tmp |-> alternate(tmp)]}

(***************************************************************************)
(* The writers of sparql.rs.                                               *)
(***************************************************************************)
\* b"INSERT DATA { ", b"DELETE DATA { " and b"}\n"
INSERT_DATA == <<73, 78, 83, 69, 82, 84, SP, 68, 65, 84, 65, SP, 123, SP>>
DELETE_DATA == <<68, 69, 76, 69, 84, 69, SP, 68, 65, 84, 65, SP, 123, SP>>
CLOSE == <<125, NL>>

\* open that empties the file whatever append is
open_truncate(file, append) == [exists |-> TRUE, data |-> <<>>]

\* File::options().append(append).truncate(!append).create(true).write(true)
\* .open(path): the file exists afterwards, emptied unless append
open(file, append) ==
    IF append /\ file.exists THEN file ELSE [exists |-> TRUE, data |-> <<>>]

\* write_all on a BufWriter of the file: the bytes follow the file's (the
\* flush of the BufWriter, dropped at the end, is taken to succeed)
write_all(file, bytes) == [file EXCEPT !.data = @ \o bytes]

\* filter_exclude that lets every triple pass
filter_exclude_nothing(exclude_dataset, in_triples) == in_triples

\* exclude_dataset.map(|exclude| !exclude.contains(triple)).unwrap_or(true),
\* as the filter of an input's triples
RECURSIVE filter_exclude(_, _)
filter_exclude(exclude_dataset, in_triples) ==
    IF in_triples = <<>> THEN <<>>
    ELSE IF exclude_dataset.some /\ contains(exclude_dataset.triples, Head(in_triples))
         THEN filter_exclude(exclude_dataset, Tail(in_triples))
         ELSE <<Head(in_triples)>> \o filter_exclude(exclude_dataset, Tail(in_triples))

\* for [s, p, o] in query: the bytes written to out and to prepare_out, each
\* triple followed by its end; the query decompresses as it is iterated, and
\* .expect panics at the first triple with an unknown id
RECURSIVE for_query(_, _, _, _)
for_query(frozen, query, out_end, prepare_end) ==
    IF query = <<>> THEN [status |-> "ok", out |-> <<>>, prepare |-> <<>>]
    ELSE LET d == decompress_rdf_triple(frozen, Head(query))
         IN  IF ~d.some THEN [status |-> "panic", out |-> <<>>, prepare |-> <<>>]
             ELSE LET spo == d.terms[1] \o <<SP>> \o d.terms[2] \o <<SP>> \o d.terms[3]
                      rest == for_query(frozen, Tail(query), out_end, prepare_end)
                  IN  [status |-> rest.status,
                       out |-> spo \o out_end \o rest.out,
                       prepare |-> spo \o prepare_end \o rest.prepare]

\* write_query with INSERT DATA written whatever prepare_out is
write_query_insert(frozen, prepare_out, query) ==
    LET body == for_query(frozen, query, <<SP, DOT, SP>>,
                          IF prepare_out = "NTriples" THEN <<SP, DOT, NL>> ELSE <<SP, DOT, SP>>)
        end == IF body.status = "ok" THEN CLOSE ELSE <<>>
    IN  [status |-> body.status,
         out |-> INSERT_DATA \o body.out \o end,
         prepare |-> IF prepare_out = "None" THEN <<>>
                     ELSE IF prepare_out = "Query" THEN DELETE_DATA \o body.prepare \o end
                     ELSE body.prepare]

\* the closure write_query: prepare_out is "None", or the prepare_format of
\* Some((prepare_out, prepare_format)); the bytes written to out and to
\* prepare_out, up to the panic if there is one
write_query(frozen, prepare_out, query) ==
    IF prepare_out # "None"
    THEN LET body == for_query(frozen, query, <<SP, DOT, SP>>,
                               IF prepare_out = "Query" THEN <<SP, DOT, SP>>
                               ELSE <<SP, DOT, NL>>)
             end == IF body.status = "ok" THEN CLOSE ELSE <<>>
         IN  [status |-> body.status,
              out |-> INSERT_DATA \o body.out \o end,
              prepare |-> IF prepare_out = "Query"
                          THEN DELETE_DATA \o body.prepare \o end
                          ELSE body.prepare]
    ELSE LET body == for_query(frozen, query, <<SP, DOT, SP>>, <<>>)
             end == IF body.status = "ok" THEN CLOSE ELSE <<>>
         IN  [status |-> body.status,
              out |-> DELETE_DATA \o body.out \o end,
              prepare |-> <<>>]

\* the closure write_ntriples
write_ntriples(frozen, query) ==
    LET body == for_query(frozen, query, <<SP, DOT, NL>>, <<>>)
    IN  [status |-> body.status, out |-> body.out, prepare |-> <<>>]

\* the match on query_type in the loop of write_update_data_queries:
\* DeleteData passes None, InsertData passes prepare_writer.as_mut()
write_one(frozen, prepare_writer, query_type, query) ==
    IF query_type = "DeleteData" THEN write_query(frozen, "None", query)
    ELSE write_query(frozen, prepare_writer, query)

(***************************************************************************)
(* The changeset generators (triple_generator.rs).                         *)
(***************************************************************************)
\* usize::abs_diff
abs_diff(a, b) == IF a >= b THEN a - b ELSE b - a

\* the flat_map over a list of changesets: their triples, one after another
flatten(list) == Concat(list)

\* slice.iter().rev()
rev(v) == [i \in 1 .. Len(v) |-> v[Len(v) + 1 - i]]

\* filter(|triple| dataset.contains(triple))
RECURSIVE filter_contained(_, _)
filter_contained(dataset_triples, in_triples) ==
    IF in_triples = <<>> THEN <<>>
    ELSE IF contains(dataset_triples, Head(in_triples))
         THEN <<Head(in_triples)>> \o filter_contained(dataset_triples, Tail(in_triples))
         ELSE filter_contained(dataset_triples, Tail(in_triples))

\* Iterator::take
take(v, n) == SubSeq(v, 1, IF n <= Len(v) THEN n ELSE Len(v))

\* the closure of fixed_size_changeset_triple_generator going forward through
\* all changesets from the first
fixed_size_from_first(changeset_list, dataset_triples, start_off, size_hint) ==
    take(filter_contained(dataset_triples, flatten(changeset_list)), size_hint)

\* the closure of fixed_size_changeset_triple_generator: start_off is 0-based
fixed_size(changeset_list, dataset_triples, start_off, size_hint) ==
    LET forward == SubSeq(changeset_list, start_off + 1, Len(changeset_list))
        backward == rev(SubSeq(changeset_list, 1, start_off))
    IN  take(filter_contained(dataset_triples, flatten(forward \o backward)), size_hint)

\* as_is_pick taking the last of the closest changesets
as_is_pick_last(changeset_list, used_ixs, size_hint) ==
    LET unused == {ix \in 0 .. (Len(changeset_list) - 1) : ix \notin used_ixs}
        key(ix) == abs_diff(Len(changeset_list[ix + 1]), size_hint)
    IN  IF unused = {} THEN -1
        ELSE CHOOSE ix \in unused :
                /\ \A other \in unused : key(ix) <= key(other)
                /\ \A other \in unused : other > ix => key(other) > key(ix)

\* the closure of as_is_changeset_triple_generator: the 0-based index that
\* enumerate, filter and min_by_key give (the first of the least keys), -1
\* for None
as_is_pick(changeset_list, used_ixs, size_hint) ==
    LET unused == {ix \in 0 .. (Len(changeset_list) - 1) : ix \notin used_ixs}
        key(ix) == abs_diff(Len(changeset_list[ix + 1]), size_hint)
    IN  IF unused = {} THEN -1
        ELSE CHOOSE ix \in unused :
                /\ \A other \in unused : key(ix) <= key(other)
                /\ \A other \in unused : other < ix => key(other) > key(ix)

(***************************************************************************)
(* The state of the compress and decompress subcommands (main.rs).         *)
(***************************************************************************)
VARIABLES
    phase,          \* "idle": no process runs; "compress": a compress run holds a
                    \* compressor; "pipeline": inside compress_rdf_triple_file;
                    \* "failed": compress_rdf_triple_file returned an error;
                    \* "decompress": a decompress run holds a decompressor
    translations,   \* RdfTripleCompressor.translations
    dedup,          \* RdfTripleCompressor.dedup
    flags,          \* the run's options: [dedup, parse, previous], previous for a
                    \* compressor loaded from previous_compressor_state
    outFile,        \* the compressed files: path -> [exists, data]
    call,           \* the running (or last) compress_rdf_triple_file:
                    \* [path, input, dedup, parse], input the lines of its input file
    pos,            \* the lines the reader thread has consumed
    chan,           \* the mpsc channel's queue
    txOpen,         \* the Sender is alive
    rxOpen,         \* the Receiver is alive
    reader,         \* the reader thread: "none", "running", "ok", "panicked"
    writer,         \* the writer thread: "none", "running", "ok", "err"
    result,         \* how that call ended: "none", "ok", "err", "panic"
    sent,           \* history: the triples tx.send accepted in that call
    dedupAtStart,   \* history: dedup as that call began
    ioError,        \* history: a write to the output file failed in that call
    dictFile,       \* the compressor state file: [exists, cells]
    frozen,         \* the RdfTripleDecompressor of a decompress run
    sink,           \* what the last decompress_rdf_triple_file wrote: [status, path, bytes]
    made,           \* history: the files made by this compressor and by those it
                    \* was loaded from
    dictMade,       \* history: made, as the state file was saved
    savedTranslations, \* history: translations, as the state file was saved
    seen            \* history: the triples this compressor passed to found_new_triple

\* the sort and contained subcommands
VARIABLES
    dataset,        \* the array of a mapped compressed file
    unsorted,       \* history: the array as dataset.sort_unstable() found it
    sorting,        \* "none", "done": the sort subcommand has sorted the file
    lookup          \* the last contains: [asked, triple, found]

\* random_distinct_triple_generator
VARIABLES
    triples,        \* the dataset the generator borrows
    generator,      \* "none", "ready", "panic": sample panics when amount > length
    ixs,            \* the sorted sample
    taken,          \* the elements itr has yielded
    total,          \* history: the n_total_query_triples the generator was made for
    hints,          \* history: the size_hint of every call
    batches         \* history: the Vec every call returned

\* the generate and replicate subcommands: generate_queries,
\* generate_linear_no_size_hint and the writers they call
VARIABLES
    out_file,       \* the file at out_query or out_file: [exists, data]
    prepare_file,   \* the file at out_prepare: [exists, data]
    decompressor,   \* the RdfTripleDecompressor of the run
    job,            \* the running (or last) call: [fn, order, append, prepare_writer,
                    \* output_format, exclude_dataset], prepare_writer "None" or the
                    \* prepare_format, exclude_dataset [some, triples]
    queries,        \* the queries the writer's loop has not reached:
                    \* [query_type, n_triples, triples], n_triples -1 for None
    emitting,       \* "none", "writing", "ok", "err", "panic"
    before,         \* history: [out, prepare], the two files as the call began
    expanded,       \* history: tmp before the match on order
    ordered,        \* history: tmp after it
    factory,        \* history: the arguments of triple_generator_factory, call by call
    given,          \* history: the inputs of generate_linear_no_size_hint
    written,        \* history: the queries written: [query_type, triples]
    emitted         \* history: [out, prepare], the bytes given to write_all on
                    \* either writer

\* fixed_size_changeset_triple_generator and as_is_changeset_triple_generator
VARIABLES
    changesets,     \* the changesets the generator borrows
    main_dataset,   \* the dataset fixed_size_changeset_triple_generator borrows
    changeset_generator, \* "none", "as_is", "fixed_size", "panic": gen_range
                    \* panics on the empty range
    start_off,      \* the start of the fixed_size generator
    used,           \* the used of the as_is generator
    calls           \* history: the calls of the closure:
                    \* [size_hint, status, used_ix, batch]

storeVars == << dataset, unsorted, sorting, lookup >>
genVars == << triples, generator, ixs, taken, total, hints, batches >>
queryVars ==
    << out_file, prepare_file, decompressor, job, queries, emitting, before, expanded,
       ordered, factory, given, written, emitted >>
changesetVars == << changesets, main_dataset, changeset_generator, start_off, used, calls >>

compVars ==
    << phase, translations, dedup, flags, outFile, call, pos, chan, txOpen, rxOpen,
       reader, writer, result, sent, dedupAtStart, ioError, dictFile, frozen, sink, made,
       dictMade, savedTranslations, seen >>

Paths == 1 .. MaxFiles

NoFile == [exists |-> FALSE, data |-> <<>>]
File(data) == [exists |-> TRUE, data |-> data]
NoFlags == [dedup |-> FALSE, parse |-> FALSE, previous |-> FALSE]
NoCall == [path |-> 0, input |-> <<>>, dedup |-> FALSE, parse |-> FALSE]
NoFrozen == [header |-> <<>>, data_segment |-> <<>>]
NoSink == [status |-> "none", path |-> 0, bytes |-> <<>>]

NoLookup == [asked |-> FALSE, triple |-> <<>>, found |-> FALSE]

\* no compressed file is mapped
StoreIdle ==
    /\ dataset = <<>>
    /\ unsorted = <<>>
    /\ sorting = "none"
    /\ lookup = NoLookup

\* no generator is made
GenIdle ==
    /\ triples = <<>>
    /\ generator = "none"
    /\ ixs = <<>>
    /\ taken = 0
    /\ total = 0
    /\ hints = <<>>
    /\ batches = <<>>

\* the previous content of an output file: x, new line
Previous == <<120, NL>>

NoExclude == [some |-> FALSE, triples |-> <<>>]
NoJob ==
    [fn |-> "none", order |-> "AsSpecified", append |-> FALSE, prepare_writer |-> "None",
     output_format |-> "Query", exclude_dataset |-> NoExclude]

\* no query is generated
QueryIdle ==
    /\ out_file = NoFile
    /\ prepare_file = NoFile
    /\ decompressor = NoFrozen
    /\ job = NoJob
    /\ queries = <<>>
    /\ emitting = "none"
    /\ before = [out |-> NoFile, prepare |-> NoFile]
    /\ expanded = <<>>
    /\ ordered = <<>>
    /\ factory = <<>>
    /\ given = <<>>
    /\ written = <<>>
    /\ emitted = [out |-> <<>>, prepare |-> <<>>]

\* no changeset generator is made
ChangesetIdle ==
    /\ changesets = <<>>
    /\ main_dataset = <<>>
    /\ changeset_generator = "none"
    /\ start_off = 0
    /\ used = {}
    /\ calls = <<>>

CompInit ==
    /\ phase = "idle"
    /\ translations = EmptyMap
    /\ dedup = {}
    /\ flags = NoFlags
    /\ outFile = [p \in Paths |-> NoFile]
    /\ call = NoCall
    /\ pos = 0
    /\ chan = <<>>
    /\ txOpen = FALSE
    /\ rxOpen = FALSE
    /\ reader = "none"
    /\ writer = "none"
    /\ result = "none"
    /\ sent = <<>>
    /\ dedupAtStart = {}
    /\ ioError = FALSE
    /\ dictFile = [exists |-> FALSE, cells |-> <<>>]
    /\ frozen = NoFrozen
    /\ sink = NoSink
    /\ made = {}
    /\ dictMade = {}
    /\ savedTranslations = EmptyMap
    /\ seen = {}

callVars ==
    << call, pos, chan, txOpen, rxOpen, reader, writer, result, sent, dedupAtStart, ioError >>
dictVars == << dictFile, dictMade, savedTranslations >>

\* the process ends: its compressor is gone
ProcessExit ==
    /\ phase' = "idle"
    /\ translations' = EmptyMap
    /\ dedup' = {}
    /\ flags' = NoFlags
    /\ made' = {}
    /\ seen' = {}

(***************************************************************************)
(* main, Opts::Compress: the compressor of a run.                          *)
(***************************************************************************)
\* RdfTripleCompressor::new()
NewCompressor(d, q) ==
    /\ UNCHANGED << storeVars, genVars, queryVars, changesetVars >>
    /\ phase = "idle"
    /\ phase' = "compress"
    /\ translations' = EmptyMap
    /\ dedup' = {}
    /\ flags' = [dedup |-> d, parse |-> q, previous |-> FALSE]
    /\ made' = {}
    /\ seen' = {}
    /\ UNCHANGED << callVars, outFile, dictVars, frozen, sink >>

\* load_state(previous_compressor_state), then from_decompressor
LoadPrevious(d, q) ==
    /\ UNCHANGED << storeVars, genVars, queryVars, changesetVars >>
    /\ phase = "idle"
    /\ dictFile.exists
    /\ phase' = "compress"
    /\ translations' = from_decompressor(load_state(dictFile.cells))
    /\ dedup' = {}
    /\ flags' = [dedup |-> d, parse |-> q, previous |-> TRUE]
    /\ made' = dictMade
    /\ seen' = {}
    /\ UNCHANGED << callVars, outFile, dictVars, frozen, sink >>

\* compressor.save_state(compressor_state_out), and the run ends
SaveState ==
    /\ UNCHANGED << storeVars, genVars, queryVars, changesetVars >>
    /\ phase = "compress"
    /\ dictFile' = [exists |-> TRUE, cells |-> save_state(translations)]
    /\ dictMade' = made
    /\ savedTranslations' = translations
    /\ ProcessExit
    /\ UNCHANGED << callVars, outFile, frozen, sink >>

(***************************************************************************)
(* compress_rdf_triple_file.                                               *)
(***************************************************************************)
\* CompressCollision with the file opened by create(true).truncate(true)
CompressCollisionTruncates(p) ==
    /\ UNCHANGED << storeVars, genVars, queryVars, changesetVars >>
    /\ phase = "compress"
    /\ outFile[p].exists
    /\ phase' = "failed"
    /\ outFile' = [outFile EXCEPT ![p] = File(<<>>)]
    /\ call' = [path |-> p, input |-> <<>>, dedup |-> flags.dedup, parse |-> flags.parse]
    /\ result' = "err"
    /\ pos' = 0
    /\ sent' = <<>>
    /\ dedupAtStart' = dedup
    /\ ioError' = FALSE
    /\ UNCHANGED << translations, dedup, flags, made, seen >>
    /\ UNCHANGED << chan, txOpen, rxOpen, reader, writer, dictVars, frozen, sink >>

\* File::options().write(true).create_new(true).open(out_path)? fails when the
\* compressed file exists: compress_rdf_triple_file returns the error
CompressCollision(p) ==
    /\ UNCHANGED << storeVars, genVars, queryVars, changesetVars >>
    /\ phase = "compress"
    /\ outFile[p].exists
    /\ phase' = "failed"
    /\ call' = [path |-> p, input |-> <<>>, dedup |-> flags.dedup, parse |-> flags.parse]
    /\ result' = "err"
    /\ pos' = 0
    /\ sent' = <<>>
    /\ dedupAtStart' = dedup
    /\ ioError' = FALSE
    /\ UNCHANGED << translations, dedup, flags, made, seen >>
    /\ UNCHANGED << outFile, chan, txOpen, rxOpen, reader, writer, dictVars, frozen, sink >>

\* the error leaves main by the ? of main.rs:295, and the run ends
ErrorExit ==
    /\ UNCHANGED << storeVars, genVars, queryVars, changesetVars >>
    /\ phase = "failed"
    /\ ProcessExit
    /\ UNCHANGED << callVars, outFile, dictVars, frozen, sink >>

\* CompressStart with a dedup set made anew for the call
CompressStartFresh(p, input) ==
    /\ UNCHANGED << storeVars, genVars, queryVars, changesetVars >>
    /\ phase = "compress"
    /\ ~outFile[p].exists
    /\ \A q \in Paths : q < p => outFile[q].exists
    /\ phase' = "pipeline"
    /\ outFile' = [outFile EXCEPT ![p] = File(<<>>)]
    /\ call' = [path |-> p, input |-> input, dedup |-> flags.dedup, parse |-> flags.parse]
    /\ pos' = 0
    /\ chan' = <<>>
    /\ txOpen' = TRUE
    /\ rxOpen' = TRUE
    /\ reader' = "running"
    /\ writer' = "running"
    /\ result' = "none"
    /\ sent' = <<>>
    /\ dedupAtStart' = {}
    /\ ioError' = FALSE
    /\ dedup' = {}
    /\ UNCHANGED << translations, flags, dictVars, frozen, sink, made, seen >>

\* the output file is created, the input opened, both threads spawned; the
\* files compressed take the paths in order
CompressStart(p, input) ==
    /\ UNCHANGED << storeVars, genVars, queryVars, changesetVars >>
    /\ phase = "compress"
    /\ ~outFile[p].exists
    /\ \A q \in Paths : q < p => outFile[q].exists
    /\ phase' = "pipeline"
    /\ outFile' = [outFile EXCEPT ![p] = File(<<>>)]
    /\ call' = [path |-> p, input |-> input, dedup |-> flags.dedup, parse |-> flags.parse]
    /\ pos' = 0
    /\ chan' = <<>>
    /\ txOpen' = TRUE
    /\ rxOpen' = TRUE
    /\ reader' = "running"
    /\ writer' = "running"
    /\ result' = "none"
    /\ sent' = <<>>
    /\ dedupAtStart' = dedup
    /\ ioError' = FALSE
    /\ UNCHANGED << translations, dedup, flags, dictVars, frozen, sink, made, seen >>

\* send with the triple put at the head of the queue
send_first(queue, triple) == <<triple>> \o queue

\* tx.send(triple) on a live channel: the queue is first in, first out
send(queue, triple) == Append(queue, triple)

\* the reader thread panics: the unwinding drops the Sender
ReaderPanics ==
    /\ reader' = "panicked"
    /\ txOpen' = FALSE
    /\ UNCHANGED << chan, sent >>

\* if !dedup || self.found_new_triple(triple) { tx.send(triple).unwrap(); }
Forward(triple) ==
    /\ seen' = IF call.dedup THEN seen \cup {triple} ELSE seen
    /\ IF ~call.dedup \/ found_new_triple(dedup, triple)
       THEN /\ dedup' = IF call.dedup THEN dedup \cup {hash_single(triple)} ELSE dedup
            /\ IF rxOpen
               THEN /\ chan' = send(chan, triple)
                    /\ sent' = Append(sent, triple)
                    /\ UNCHANGED << reader, txOpen >>
               ELSE ReaderPanics
       ELSE UNCHANGED << dedup, chan, sent, reader, txOpen >>

\* one iteration of the reader thread's loop; got is what the loop makes of
\* the line, triple the compressed triple
ReaderStep ==
    /\ UNCHANGED << storeVars, genVars, queryVars, changesetVars >>
    /\ phase = "pipeline"
    /\ reader = "running"
    /\ pos < Len(call.input)
    /\ pos' = pos + 1
    /\ \E got \in {IF call.parse THEN ParsedLine(call.input[pos + 1])
                                  ELSE RawLine(call.input[pos + 1])} :
           CASE got.kind = "triple" ->
                  /\ translations' =
                        IF call.parse
                        THEN compress_parsed_rdf_triple(translations, got.terms)
                        ELSE compress_raw_rdf_triple(translations, got.terms)
                  /\ \E triple \in {TripleOf(got.terms)} : Forward(triple)
             [] got.kind = "panic" ->
                  /\ ReaderPanics
                  /\ UNCHANGED << translations, dedup, seen >>
             [] OTHER ->
                  UNCHANGED << translations, dedup, seen, chan, sent, reader, txOpen >>
    /\ UNCHANGED << phase, flags, outFile, call, rxOpen, writer, result, dedupAtStart, ioError,
                    dictVars, frozen, sink, made >>

\* ReaderEnd with the Sender kept alive
ReaderEndKeepsSender ==
    /\ UNCHANGED << storeVars, genVars, queryVars, changesetVars >>
    /\ phase = "pipeline"
    /\ reader = "running"
    /\ pos = Len(call.input)
    /\ reader' = "ok"
    /\ UNCHANGED << phase, translations, dedup, flags, outFile, call, pos, chan, txOpen,
                    rxOpen, writer, result, sent, dedupAtStart, ioError, dictVars, frozen,
                    sink, made, seen >>

\* the input is at its end: the thread returns Ok(()) and drops the Sender
ReaderEnd ==
    /\ UNCHANGED << storeVars, genVars, queryVars, changesetVars >>
    /\ phase = "pipeline"
    /\ reader = "running"
    /\ pos = Len(call.input)
    /\ reader' = "ok"
    /\ txOpen' = FALSE
    /\ UNCHANGED << phase, translations, dedup, flags, outFile, call, pos, chan, rxOpen,
                    writer, result, sent, dedupAtStart, ioError, dictVars, frozen, sink, made,
                    seen >>

\* rx.recv() yields a triple and the three write_all succeed
WriterStep ==
    /\ UNCHANGED << storeVars, genVars, queryVars, changesetVars >>
    /\ phase = "pipeline"
    /\ writer = "running"
    /\ chan # <<>>
    /\ outFile' = [outFile EXCEPT ![call.path] =
                      File(Append(outFile[call.path].data, Head(chan)))]
    /\ chan' = Tail(chan)
    /\ UNCHANGED << phase, translations, dedup, flags, call, pos, txOpen, rxOpen, reader,
                    writer, result, sent, dedupAtStart, ioError, dictVars, frozen, sink, made,
                    seen >>

\* rx.recv() yields a triple and a write_all fails: the thread returns the
\* error and drops the Receiver with what is queued
WriterFails ==
    /\ UNCHANGED << storeVars, genVars, queryVars, changesetVars >>
    /\ phase = "pipeline"
    /\ writer = "running"
    /\ chan # <<>>
    /\ writer' = "err"
    /\ rxOpen' = FALSE
    /\ chan' = <<>>
    /\ ioError' = TRUE
    /\ UNCHANGED << phase, translations, dedup, flags, outFile, call, pos, txOpen, reader,
                    result, sent, dedupAtStart, dictVars, frozen, sink, made, seen >>

\* rx.recv() fails, the queue empty and the Sender gone: the thread returns
\* Ok(()); bw is dropped, and its flush is taken to succeed (BufWriter's drop
\* ignores an error of the flush)
WriterEnd ==
    /\ UNCHANGED << storeVars, genVars, queryVars, changesetVars >>
    /\ phase = "pipeline"
    /\ writer = "running"
    /\ chan = <<>>
    /\ ~txOpen
    /\ writer' = "ok"
    /\ rxOpen' = FALSE
    /\ UNCHANGED << phase, translations, dedup, flags, outFile, call, pos, chan, txOpen,
                    reader, result, sent, dedupAtStart, ioError, dictVars, frozen, sink, made,
                    seen >>

\* rx.recv() fails as in WriterEnd and the thread returns Ok(()), but the
\* flush of bw at its drop fails: BufWriter's drop ignores the error, and the
\* records still in the buffer are lost (bw holds up to 8 KiB, so for a short
\* file this flush is the only write to the file)
WriterEndFlushFails ==
    /\ UNCHANGED << storeVars, genVars, queryVars, changesetVars >>
    /\ phase = "pipeline"
    /\ writer = "running"
    /\ chan = <<>>
    /\ ~txOpen
    /\ outFile[call.path].data # <<>>
    /\ writer' = "ok"
    /\ rxOpen' = FALSE
    /\ ioError' = TRUE
    /\ \E flushed \in 0 .. (Len(outFile[call.path].data) - 1) :
          outFile' = [outFile EXCEPT ![call.path] =
                        File(SubSeq(outFile[call.path].data, 1, flushed))]
    /\ UNCHANGED << phase, translations, dedup, flags, call, pos, chan, txOpen, reader,
                    result, sent, dedupAtStart, dictVars, frozen, sink, made, seen >>

\* writer_res.unwrap()?; reader_res.unwrap()?; Ok(())
JoinResult ==
    IF writer = "err" THEN "err"
    ELSE IF reader = "panicked" THEN "panic"
    ELSE "ok"

\* both threads are joined and compress_rdf_triple_file ends; anything but
\* Ok(()) ends the run without save_state
CompressReturn ==
    /\ UNCHANGED << storeVars, genVars, queryVars, changesetVars >>
    /\ phase = "pipeline"
    /\ reader # "running"
    /\ writer # "running"
    /\ result' = JoinResult
    /\ reader' = "none"
    /\ writer' = "none"
    /\ IF JoinResult = "ok"
       THEN /\ phase' = "compress"
            /\ made' = made \cup {call.path}
            /\ UNCHANGED << translations, dedup, flags, seen >>
       ELSE ProcessExit
    /\ UNCHANGED << outFile, call, pos, chan, txOpen, rxOpen, sent, dedupAtStart, ioError,
                    dictVars, frozen, sink >>

(***************************************************************************)
(* main, Opts::Decompress.                                                 *)
(***************************************************************************)
\* RdfTripleDecompressor::load_state(compressor_state)
LoadState ==
    /\ UNCHANGED << storeVars, genVars, queryVars, changesetVars >>
    /\ phase = "idle"
    /\ dictFile.exists
    /\ phase' = "decompress"
    /\ frozen' = load_state(dictFile.cells)
    /\ made' = dictMade
    /\ UNCHANGED << translations, dedup, flags, callVars, outFile, dictVars, sink, seen >>

\* decompressor.decompress_rdf_triple_file(dataset, stdout)
DecompressFile(p) ==
    /\ UNCHANGED << storeVars, genVars, queryVars, changesetVars >>
    /\ phase = "decompress"
    /\ sink.status # "panic"
    /\ outFile[p].exists
    /\ LET out == decompress_rdf_triple_file(frozen, outFile[p].data)
       IN  sink' = [status |-> out.status, path |-> p, bytes |-> out.bytes]
    /\ UNCHANGED << phase, translations, dedup, flags, callVars, outFile, dictVars,
                    frozen, made, seen >>

\* the run ends (after a panic, at once)
DecompressExit ==
    /\ UNCHANGED << storeVars, genVars, queryVars, changesetVars >>
    /\ phase = "decompress"
    /\ frozen' = NoFrozen
    /\ sink' = NoSink
    /\ ProcessExit
    /\ UNCHANGED << callVars, outFile, dictVars >>

CompNext ==
    \/ \E d \in BOOLEAN, q \in BOOLEAN : NewCompressor(d, q)
    \/ \E d \in BOOLEAN, q \in BOOLEAN : LoadPrevious(d, q)
    \/ SaveState
    \/ \E p \in Paths : CompressCollision(p)
    \/ ErrorExit
    \/ /\ phase = "compress"
       /\ \E p \in Paths, input \in InputFiles : CompressStart(p, input)
    \/ ReaderStep
    \/ ReaderEnd
    \/ WriterStep
    \/ WriterFails
    \/ WriterEnd
    \/ CompressReturn
    \/ LoadState
    \/ \E p \in Paths : DecompressFile(p)
    \/ DecompressExit

(***************************************************************************)
(* main, Opts::Sort and Opts::Contained, on a mapped compressed file.      *)
(***************************************************************************)
\* Opts::Sort: load_shared, then dataset.sort_unstable() on the mapping
Sort ==
    /\ unsorted' = dataset
    /\ dataset' = sort_unstable(dataset)
    /\ sorting' = "done"
    /\ lookup' = NoLookup
    /\ UNCHANGED << compVars, genVars, queryVars, changesetVars >>

\* dataset_triples.contains(t)
Contains(t) ==
    /\ lookup' = [asked |-> TRUE, triple |-> t, found |-> contains(dataset, t)]
    /\ UNCHANGED << dataset, unsorted, sorting >>
    /\ UNCHANGED << compVars, genVars, queryVars, changesetVars >>

StoreNext ==
    \/ Sort
    \/ \E t \in CompressedTriples : Contains(t)

(***************************************************************************)
(* random_distinct_triple_generator and its closure.                       *)
(***************************************************************************)
\* the generator is made for n_total_query_triples triples: sample panics
\* when there are fewer
NewGenerator(n_total_query_triples) ==
    /\ generator = "none"
    /\ IF n_total_query_triples > Len(triples)
       THEN /\ generator' = "panic"
            /\ ixs' = <<>>
       ELSE /\ generator' = "ready"
            /\ ixs' \in Samples(Len(triples), n_total_query_triples)
    /\ taken' = 0
    /\ total' = n_total_query_triples
    /\ UNCHANGED << triples, hints, batches >>
    /\ UNCHANGED << compVars, storeVars, queryVars, changesetVars >>

\* one call of the closure
Generate(size_hint) ==
    /\ generator = "ready"
    /\ Len(hints) < MaxCalls
    /\ LET buf == next_batch(triples, ixs, taken, size_hint)
       IN  /\ batches' = Append(batches, buf)
           /\ taken' = taken + Len(buf)
    /\ hints' = Append(hints, size_hint)
    /\ UNCHANGED << triples, generator, ixs, total >>
    /\ UNCHANGED << compVars, storeVars, queryVars, changesetVars >>

GenNext ==
    \/ \E n \in 0 .. MaxTotal : NewGenerator(n)
    \/ \E size_hint \in 0 .. MaxHint : Generate(size_hint)

(***************************************************************************)
(* generate_queries and write_update_data_queries (the generate            *)
(* subcommand).                                                            *)
(***************************************************************************)
\* the triples of the model's datasets: (a, p, b), (a, p, c), and a triple
\* with an id the dictionary lacks
TripleABC == TripleOf(RawLine(LineABC).terms)
TripleAPC == TripleOf(RawLine(LineAPC).terms)
TripleUnknown == <<1, 0, 4>>

\* the dictionary of a run that compressed a p b and a p c, saved and loaded
Dictionary ==
    load_state(save_state(
        compress_raw_rdf_triple(compress_raw_rdf_triple(EmptyMap, RawLine(LineABC).terms),
                                RawLine(LineAPC).terms)))

\* the query specs of the model
QuerySpecs ==
    [n_queries : 0 .. MaxQueries, n_triples_per_query : 1 .. MaxSize,
     query_type : {"InsertData", "DeleteData"}]

\* the lists of query specs of a generate run
RECURSIVE n_slots(_)
n_slots(query_specs) ==
    IF query_specs = <<>> THEN 0 ELSE Head(query_specs).n_queries + n_slots(Tail(query_specs))
QuerySpecLists == {l \in SeqsUpTo(QuerySpecs, MaxSpecs) : n_slots(l) <= MaxSlots}

\* triple_generator_factory is any FnMut(usize) -> I; what a call of the
\* model's returns: the n_triples first triples of a dataset, or none (the
\* dataset is used up), or a triple of another dictionary
GeneratorBatches(n_triples) ==
    { take(<<TripleABC, TripleAPC>>, n_triples), <<>>, <<TripleUnknown>> }

\* GenerateQueries with both files opened before the match on order
GenerateQueriesOpenFirst(query_specs, order, append, prepare_format) ==
    /\ emitting = "none"
    /\ LET tmp == expand(query_specs)
       IN  /\ expanded' = tmp
           /\ \E r \in reorder(tmp, order) :
                /\ ordered' = r.tmp
                /\ IF r.status = "err"
                   THEN /\ emitting' = "err"
                        /\ queries' = <<>>
                        /\ out_file' = open(out_file, append)
                        /\ prepare_file' = open(prepare_file, append)
                   ELSE /\ emitting' = "writing"
                        /\ queries' = [i \in 1 .. Len(r.tmp) |->
                                         [query_type |-> r.tmp[i].query_type,
                                          n_triples |-> r.tmp[i].size,
                                          triples |-> <<>>]]
                        /\ out_file' = open(out_file, append)
                        /\ prepare_file' = open(prepare_file, append)
    /\ job' = [fn |-> "generate_queries", order |-> order, append |-> append,
               prepare_writer |-> prepare_format, output_format |-> "Query",
               exclude_dataset |-> NoExclude]
    /\ before' = [out |-> out_file, prepare |-> prepare_file]
    /\ factory' = <<>>
    /\ written' = <<>>
    /\ emitted' = [out |-> <<>>, prepare |-> <<>>]
    /\ UNCHANGED << decompressor, given >>
    /\ UNCHANGED << compVars, storeVars, genVars, changesetVars >>

\* generate_queries up to the loop of write_update_data_queries: the slots
\* expanded and reordered, then both files opened; or the InvalidInput error
GenerateQueries(query_specs, order, append, prepare_format) ==
    /\ emitting = "none"
    /\ LET tmp == expand(query_specs)
       IN  /\ expanded' = tmp
           /\ \E r \in reorder(tmp, order) :
                /\ ordered' = r.tmp
                /\ IF r.status = "err"
                   THEN /\ emitting' = "err"
                        /\ queries' = <<>>
                        /\ UNCHANGED << out_file, prepare_file >>
                   ELSE /\ emitting' = "writing"
                        /\ queries' = [i \in 1 .. Len(r.tmp) |->
                                         [query_type |-> r.tmp[i].query_type,
                                          n_triples |-> r.tmp[i].size,
                                          triples |-> <<>>]]
                        /\ out_file' = open(out_file, append)
                        /\ prepare_file' = open(prepare_file, append)
    /\ job' = [fn |-> "generate_queries", order |-> order, append |-> append,
               prepare_writer |-> prepare_format, output_format |-> "Query",
               exclude_dataset |-> NoExclude]
    /\ before' = [out |-> out_file, prepare |-> prepare_file]
    /\ factory' = <<>>
    /\ written' = <<>>
    /\ emitted' = [out |-> <<>>, prepare |-> <<>>]
    /\ UNCHANGED << decompressor, given >>
    /\ UNCHANGED << compVars, storeVars, genVars, changesetVars >>

\* one turn of the loop for a slot of generate_queries: the queries iterator
\* calls triple_generator_factory(n_triples), and write_query writes the query
WriteGenerated ==
    /\ emitting = "writing"
    /\ job.fn = "generate_queries"
    /\ queries # <<>>
    /\ LET q == Head(queries)
       IN  \E batch \in GeneratorBatches(q.n_triples) :
             \E w \in {write_one(decompressor, job.prepare_writer, q.query_type, batch)} :
                /\ out_file' = write_all(out_file, w.out)
                /\ prepare_file' = write_all(prepare_file, w.prepare)
                /\ emitting' = IF w.status = "panic" THEN "panic" ELSE "writing"
                /\ factory' = Append(factory, q.n_triples)
                /\ written' = Append(written, [query_type |-> q.query_type, triples |-> batch])
                /\ emitted' = [out |-> emitted.out \o w.out,
                               prepare |-> emitted.prepare \o w.prepare]
    /\ queries' = Tail(queries)
    /\ UNCHANGED << decompressor, job, before, expanded, ordered, given >>
    /\ UNCHANGED << compVars, storeVars, genVars, changesetVars >>

\* the queries iterator calls triple_generator_factory(n_triples), and the
\* call panics (the as_is closure with every changeset used)
FactoryPanics ==
    /\ emitting = "writing"
    /\ job.fn = "generate_queries"
    /\ queries # <<>>
    /\ emitting' = "panic"
    /\ factory' = Append(factory, Head(queries).n_triples)
    /\ queries' = Tail(queries)
    /\ UNCHANGED << out_file, prepare_file, decompressor, job, before, expanded, ordered,
                    given, written, emitted >>
    /\ UNCHANGED << compVars, storeVars, genVars, changesetVars >>

\* the loop is over: Ok(()), the writers dropped
WriterReturn ==
    /\ emitting = "writing"
    /\ queries = <<>>
    /\ emitting' = "ok"
    /\ UNCHANGED << out_file, prepare_file, decompressor, job, queries, before, expanded,
                    ordered, factory, given, written, emitted >>
    /\ UNCHANGED << compVars, storeVars, genVars, changesetVars >>

(***************************************************************************)
(* generate_linear_no_size_hint (the replicate subcommand).                *)
(***************************************************************************)
\* the inputs of a replicate run: main gives every input of the N-Triples
\* format the type DeleteData
ReplicateInputs(output_format) ==
    SeqsUpTo([query_type : IF output_format = "Query" THEN {"InsertData", "DeleteData"}
                           ELSE {"DeleteData"},
              triples : SeqsUpTo({TripleABC, TripleAPC, TripleUnknown}, MaxInputLen)],
             MaxInputs)

\* the exclude datasets: none, or a sorted one (main asserts is_sorted)
ExcludeDatasets ==
    {NoExclude} \cup
    {[some |-> TRUE, triples |-> v] :
        v \in {w \in SeqsUpTo({TripleABC, TripleAPC, TripleUnknown}, MaxInputLen) :
                  is_sorted(w)}}

\* generate_linear_no_size_hint up to the writer's loop: the file opened by
\* write_update_data_queries or by write_ntriples_file
GenerateLinear(generators, exclude_dataset, append, output_format) ==
    /\ emitting = "none"
    /\ emitting' = "writing"
    /\ job' = [fn |-> "generate_linear_no_size_hint", order |-> "AsSpecified",
               append |-> append, prepare_writer |-> "None",
               output_format |-> output_format, exclude_dataset |-> exclude_dataset]
    /\ queries' = [i \in 1 .. Len(generators) |->
                     [query_type |-> generators[i].query_type, n_triples |-> -1,
                      triples |-> generators[i].triples]]
    /\ out_file' = open(out_file, append)
    /\ before' = [out |-> out_file, prepare |-> prepare_file]
    /\ given' = generators
    /\ written' = <<>>
    /\ emitted' = [out |-> <<>>, prepare |-> <<>>]
    /\ UNCHANGED << prepare_file, decompressor, expanded, ordered, factory >>
    /\ UNCHANGED << compVars, storeVars, genVars, changesetVars >>

\* one turn of the loop for an input of the replicate run
WriteLinear ==
    /\ emitting = "writing"
    /\ job.fn = "generate_linear_no_size_hint"
    /\ queries # <<>>
    /\ LET q == Head(queries)
           query == filter_exclude(job.exclude_dataset, q.triples)
       IN  \E w \in {IF job.output_format = "Query"
                     THEN write_one(decompressor, job.prepare_writer, q.query_type, query)
                     ELSE write_ntriples(decompressor, query)} :
             /\ out_file' = write_all(out_file, w.out)
             /\ emitting' = IF w.status = "panic" THEN "panic" ELSE "writing"
             /\ written' = Append(written, [query_type |-> q.query_type, triples |-> query])
             /\ emitted' = [out |-> emitted.out \o w.out, prepare |-> emitted.prepare]
    /\ queries' = Tail(queries)
    /\ UNCHANGED << prepare_file, decompressor, job, before, expanded, ordered, factory,
                    given >>
    /\ UNCHANGED << compVars, storeVars, genVars, changesetVars >>

QueriesNext ==
    \/ /\ emitting = "none"
       /\ \E query_specs \in QuerySpecLists, order \in OutputOrders,
             append \in BOOLEAN, prepare_format \in {"Query", "NTriples"} :
               GenerateQueries(query_specs, order, append, prepare_format)
    \/ WriteGenerated
    \/ FactoryPanics
    \/ WriterReturn

ReplicateNext ==
    \/ /\ emitting = "none"
       /\ \E output_format \in {"Query", "NTriples"} :
            \E generators \in ReplicateInputs(output_format),
               exclude_dataset \in ExcludeDatasets, append \in BOOLEAN :
                 GenerateLinear(generators, exclude_dataset, append, output_format)
    \/ WriteLinear
    \/ WriterReturn

(***************************************************************************)
(* The changeset generators and their closures.                            *)
(***************************************************************************)
\* the changesets of the model, and the lists of them
Changesets == SeqsUpTo({TripleABC, TripleAPC}, MaxChangesetLen)
ChangesetLists == SeqsUpTo(Changesets, MaxChangesets)
\* the main datasets: sorted (main asserts is_sorted)
MainDatasets ==
    {v \in SeqsUpTo({TripleABC, TripleAPC}, MaxChangesetLen) :
        is_sorted(v)}

\* as_is_changeset_triple_generator(&changesets)
NewAsIs ==
    /\ changeset_generator = "none"
    /\ changeset_generator' = "as_is"
    /\ used' = {}
    /\ UNCHANGED << changesets, main_dataset, start_off, calls >>
    /\ UNCHANGED << compVars, storeVars, genVars, queryVars >>

\* one call of its closure: .expect panics when every changeset is used
AsIs(size_hint) ==
    /\ changeset_generator = "as_is"
    /\ \E used_ix \in {as_is_pick(changesets, used, size_hint)} :
         IF used_ix = -1
         THEN /\ changeset_generator' = "panic"
              /\ calls' = Append(calls, [size_hint |-> size_hint, status |-> "panic",
                                         used_ix |-> -1, batch |-> <<>>])
              /\ UNCHANGED used
         ELSE /\ used' = used \cup {used_ix}
              /\ calls' = Append(calls, [size_hint |-> size_hint, status |-> "ok",
                                         used_ix |-> used_ix,
                                         batch |-> changesets[used_ix + 1]])
              /\ UNCHANGED changeset_generator
    /\ UNCHANGED << changesets, main_dataset, start_off >>
    /\ UNCHANGED << compVars, storeVars, genVars, queryVars >>

\* fixed_size_changeset_triple_generator(&changesets, &dataset):
\* gen_range(0..changesets.len()) gives any index, and panics on no changeset
NewFixedSize(dataset_triples) ==
    /\ changeset_generator = "none"
    /\ main_dataset' = dataset_triples
    /\ IF changesets = <<>>
       THEN /\ changeset_generator' = "panic"
            /\ start_off' = 0
       ELSE /\ changeset_generator' = "fixed_size"
            /\ start_off' \in 0 .. (Len(changesets) - 1)
    /\ UNCHANGED << changesets, used, calls >>
    /\ UNCHANGED << compVars, storeVars, genVars, queryVars >>

\* one call of its closure, the iterator it returns collected
FixedSize(size_hint) ==
    /\ changeset_generator = "fixed_size"
    /\ Len(calls) < MaxCalls
    /\ calls' = Append(calls, [size_hint |-> size_hint, status |-> "ok", used_ix |-> -1,
                               batch |-> fixed_size(changesets, main_dataset, start_off,
                                                    size_hint)])
    /\ UNCHANGED << changesets, main_dataset, changeset_generator, start_off, used >>
    /\ UNCHANGED << compVars, storeVars, genVars, queryVars >>

ChangesetNext ==
    \/ NewAsIs
    \/ \E size_hint \in 0 .. MaxHint : AsIs(size_hint)
    \/ \E dataset_triples \in MainDatasets : NewFixedSize(dataset_triples)
    \/ \E size_hint \in 0 .. MaxHint : FixedSize(size_hint)

vars == << compVars, storeVars, genVars, queryVars, changesetVars >>
Init == CompInit /\ StoreIdle /\ GenIdle /\ QueryIdle /\ ChangesetIdle
Next == CompNext
Spec == Init /\ [][Next]_vars

\* the sort and contained subcommands on any compressed file
StoreInit ==
    /\ CompInit
    /\ GenIdle
    /\ QueryIdle
    /\ ChangesetIdle
    /\ dataset \in CompressedFiles
    /\ unsorted = <<>>
    /\ sorting = "none"
    /\ lookup = NoLookup
StoreSpec == StoreInit /\ [][StoreNext]_vars

\* a generator on any compressed file
GenInit ==
    /\ CompInit
    /\ StoreIdle
    /\ QueryIdle
    /\ ChangesetIdle
    /\ triples \in CompressedFiles
    /\ generator = "none"
    /\ ixs = <<>>
    /\ taken = 0
    /\ total = 0
    /\ hints = <<>>
    /\ batches = <<>>
GenSpec == GenInit /\ [][GenNext]_vars

\* a generate or a replicate run: either output file is missing or holds
\* previous content, and the decompressor is loaded
QueryInit ==
    /\ CompInit
    /\ StoreIdle
    /\ GenIdle
    /\ ChangesetIdle
    /\ out_file \in {NoFile, File(Previous)}
    /\ prepare_file \in {NoFile, File(Previous)}
    /\ decompressor = Dictionary
    /\ job = NoJob
    /\ queries = <<>>
    /\ emitting = "none"
    /\ before = [out |-> NoFile, prepare |-> NoFile]
    /\ expanded = <<>>
    /\ ordered = <<>>
    /\ factory = <<>>
    /\ given = <<>>
    /\ written = <<>>
    /\ emitted = [out |-> <<>>, prepare |-> <<>>]
QueriesSpec == QueryInit /\ [][QueriesNext]_vars
ReplicateSpec == QueryInit /\ [][ReplicateNext]_vars
\* the runs of either subcommand
WritersNext == QueriesNext \/ ReplicateNext
WritersSpec == QueryInit /\ [][WritersNext]_vars

\* a changeset generator on any list of changesets
ChangesetInit ==
    /\ CompInit
    /\ StoreIdle
    /\ GenIdle
    /\ QueryIdle
    /\ changesets \in ChangesetLists
    /\ main_dataset = <<>>
    /\ changeset_generator = "none"
    /\ start_off = 0
    /\ used = {}
    /\ calls = <<>>
ChangesetSpec == ChangesetInit /\ [][ChangesetNext]_vars

\* the threads of a call are scheduled fairly: the reader thread, the writer
\* thread and the thread that joins them each take their next step
Fairness ==
    /\ WF_vars(ReaderStep)
    /\ WF_vars(ReaderEnd)
    /\ WF_vars(WriterStep \/ WriterFails)
    /\ WF_vars(WriterEnd)
    /\ WF_vars(CompressReturn)

\* the compress runs over the first dataset alone, their threads scheduled fairly
PipelineNext ==
    \/ \E d \in BOOLEAN, q \in BOOLEAN : NewCompressor(d, q)
    \/ \E p \in Paths : CompressCollision(p)
    \/ ErrorExit
    \/ /\ phase = "compress"
       /\ \E input \in InputFiles : CompressStart(1, input)
    \/ ReaderStep
    \/ ReaderEnd
    \/ WriterStep
    \/ WriterFails
    \/ WriterEnd
    \/ CompressReturn
    \/ SaveState
PipelineSpec == Init /\ [][PipelineNext]_vars /\ Fairness

\* the same runs with every failure of a write to the output file, the one
\* at the drop of bw among them
FaultNext ==
    \/ PipelineNext
    \/ WriterEndFlushFails
FaultSpec == Init /\ [][FaultNext]_vars /\ Fairness

(***************************************************************************)
(* What the specification says of a line, stated on the line's bytes.      *)
(***************************************************************************)
\* the position of the first space and of the second (0 for none)
FirstSpace(line) == IndexOf(line, SP, 1)
SecondSpace(line) == IF FirstSpace(line) = 0 THEN 0 ELSE IndexOf(line, SP, FirstSpace(line) + 1)

\* the lines the compressor leaves out: an empty line, a comment, and a line
\* whose subject (its first byte) or object (the byte after the second space)
\* starts with '_'
LeftOut(line) ==
    \/ line = <<>>
    \/ line[1] = HASH
    \/ line[1] = USCORE
    \/ /\ SecondSpace(line) # 0
       /\ SecondSpace(line) < Len(line)
       /\ line[SecondSpace(line) + 1] = USCORE

\* the three terms of a line S P O .
SubjectOf(line) == SubSeq(line, 1, FirstSpace(line) - 1)
PredicateOf(line) == SubSeq(line, FirstSpace(line) + 1, SecondSpace(line) - 1)
ObjectOf(line) == SubSeq(line, SecondSpace(line) + 1, Len(line) - 2)
TermsOf(line) == <<SubjectOf(line), PredicateOf(line), ObjectOf(line)>>

\* the lines of an input that are not left out, in input order
RECURSIVE Kept(_)
Kept(input) ==
    IF input = <<>> THEN <<>>
    ELSE IF LeftOut(Head(input)) THEN Kept(Tail(input))
    ELSE <<Head(input)>> \o Kept(Tail(input))

\* the kept lines, each followed by a newline
RECURSIVE KeptBytes(_)
KeptBytes(input) ==
    IF input = <<>> THEN <<>>
    ELSE IF LeftOut(Head(input)) THEN KeptBytes(Tail(input))
    ELSE Head(input) \o <<NL>> \o KeptBytes(Tail(input))

\* the kept lines as a dictionary renders them: every term replaced by the
\* bytes stored under its TermId
RECURSIVE Rendered(_, _)
Rendered(dict, input) ==
    IF input = <<>> THEN <<>>
    ELSE IF LeftOut(Head(input)) THEN Rendered(dict, Tail(input))
    ELSE LET t == TermsOf(Head(input))
         IN  dict[hash_single(t[1])] \o <<SP>> \o dict[hash_single(t[2])] \o <<SP>>
                 \o dict[hash_single(t[3])] \o <<SP, DOT, NL>> \o Rendered(dict, Tail(input))

\* every term of a kept line is the term the dictionary stores under its TermId
StoredFaithfully(dict, input) ==
    \A i \in 1 .. Len(input) :
        ~LeftOut(input[i]) =>
            \A k \in 1 .. 3 :
                /\ hash_single(TermsOf(input[i])[k]) \in DOMAIN dict
                /\ dict[hash_single(TermsOf(input[i])[k])] = TermsOf(input[i])[k]

(***************************************************************************)
(* C1                                                                      *)
(***************************************************************************)
\* the last file compressed was accepted with dedup = false and parse = false,
\* the dictionary was saved after it, and a decompress run loaded that
\* dictionary and decompressed the file
RoundTripDone ==
    /\ phase = "decompress"
    /\ sink.status # "none"
    /\ sink.path = call.path
    /\ result = "ok"
    /\ ~call.dedup
    /\ ~call.parse
    /\ call.path \in made

RECURSIVE AcceptedTerms(_, _)
AcceptedTerms(input, parse) ==
    IF input = <<>> THEN <<>>
    ELSE LET got == IF parse THEN ParsedLine(Head(input)) ELSE RawLine(Head(input))
         IN  IF got.kind = "triple"
             THEN <<got.terms>> \o AcceptedTerms(Tail(input), parse)
             ELSE AcceptedTerms(Tail(input), parse)

\* the same triples compressed
Accepted(input, parse) ==
    LET terms == AcceptedTerms(input, parse)
    IN  [i \in 1 .. Len(terms) |-> TripleOf(terms[i])]

\* the elements of a sequence at the indices of idx, in ascending index order
SubseqAt(s, idx) ==
    [k \in 1 .. Cardinality(idx) |->
        s[CHOOSE i \in idx : Cardinality({j \in idx : j < i}) = k - 1]]

\* the indices at which a value occurs in a sequence for the first time
FirstOccurrences(s) == {i \in 1 .. Len(s) : \A j \in 1 .. (i - 1) : s[j] # s[i]}

\* the indices at which the hash of a triple occurs for the first time in the
\* sequence and is not among the hashes known
NewHashes(s, known) ==
    {i \in 1 .. Len(s) :
        /\ hash_single(s[i]) \notin known
        /\ \A j \in 1 .. (i - 1) : hash_single(s[j]) # hash_single(s[i])}

\* the last compress_rdf_triple_file returned Ok(())
Returned == result = "ok"
OutData == outFile[call.path].data

\* hashing tells apart the accepted triples of the call's input: their terms
\* by TermId, their compressed forms by the hash of the triple
HashingExact ==
    LET terms == AcceptedTerms(call.input, call.parse)
    IN  \A i, j \in 1 .. Len(terms) :
            terms[i] # terms[j] =>
                /\ TripleOf(terms[i]) # TripleOf(terms[j])
                /\ hash_single(TripleOf(terms[i])) # hash_single(TripleOf(terms[j]))

ReaderGot ==
    IF call.parse THEN ParsedLine(call.input[pos + 1]) ELSE RawLine(call.input[pos + 1])

\* this step is the reader thread's, with dedup = true, on a line that is a triple
Handling ==
    /\ phase = "pipeline"
    /\ reader = "running"
    /\ pos < Len(call.input)
    /\ pos' = pos + 1
    /\ call.dedup
    /\ ReaderGot.kind = "triple"

HandledTriple == TripleOf(ReaderGot.terms)

\* the step forwards the triple to the writer
Forwarded == sent' = Append(sent, HandledTriple)

\* a compressor instance is alive
Alive == phase \in {"compress", "pipeline"}

\* C3 as stated: with dedup = true a triple is forwarded to the writer if and
\* only if no earlier dedup-enabled step of the same compressor instance
\* forwarded or registered it
C3_ForwardIffUnseen ==
    [][Handling => (Forwarded <=> HandledTriple \notin seen)]_vars

\* C3 amended: the dedup set is the set of the hashes of the triples the
\* instance passed through its dedup test, it is empty in a new instance (also
\* in one loaded from a saved state) and never loses an element while the
\* instance lives; with dedup = true a triple is forwarded to the writer if and
\* only if its hash is not in the set and the writer's Receiver is alive, and
\* its hash is in the set afterwards; so a triple seen in an earlier file of the
\* run is not forwarded
C3_DedupPerInstance ==
    /\ [](Alive => dedup = {hash_single(u) : u \in seen})
    /\ [][(phase = "idle" /\ phase' = "compress") => dedup' = {}]_vars
    /\ [][(Alive /\ phase' \in {"compress", "pipeline"}) => dedup \subseteq dedup']_vars
    /\ [][Handling =>
            /\ Forwarded <=> (hash_single(HandledTriple) \notin dedup /\ rxOpen)
            /\ ~Forwarded => sent' = sent
            /\ dedup' = dedup \cup {hash_single(HandledTriple)}
            /\ HandledTriple \in seen => ~Forwarded]_vars

\* in the second file of a run with dedup = true the reader thread has passed
\* a triple that the first file holds, and has not forwarded it
C3_Witness ==
    /\ phase = "pipeline"
    /\ call.dedup
    /\ call.path = 2
    /\ pos = 1
    /\ reader = "running"
    /\ rxOpen
    /\ Len(Accepted(<<call.input[1]>>, call.parse)) = 1
    /\ Accepted(<<call.input[1]>>, call.parse)[1] \in seen
    /\ Accepted(<<call.input[1]>>, call.parse)[1] \in Range(outFile[1].data)
    /\ sent = <<>>

(***************************************************************************)
(* C4                                                                      *)
(***************************************************************************)
IsPrefix(a, b) == Len(a) <= Len(b) /\ a = SubSeq(b, 1, Len(a))

\* the accepted triples among the lines the reader thread has consumed
Consumed == Accepted(SubSeq(call.input, 1, pos), call.parse)

WriterWaits ==
    phase = "pipeline" /\ writer = "running" /\ chan = <<>> /\ txOpen

\* C5: a reader thread that has finished has dropped the Sender; a writer
\* thread that has finished with Ok(()) has written every triple sent;
\* compress_rdf_triple_file ends only with both threads finished; and under
\* fair scheduling every call ends (with Ok(()), with the writer's error, or
\* with the reader's panic carried on) and the writer thread never waits for
\* ever on an empty channel
C5_Termination ==
    /\ []((phase = "pipeline" /\ reader # "running") => ~txOpen)
    /\ []((phase = "pipeline" /\ writer = "ok") => (chan = <<>> /\ OutData = sent))
    /\ [][(phase = "pipeline" /\ phase' # "pipeline")
            => (reader # "running" /\ writer # "running")]_vars
    /\ (phase = "pipeline") ~> (phase # "pipeline")
    /\ WriterWaits ~> ~WriterWaits

\* the reader thread has finished and dropped the Sender, and the writer
\* thread has two triples left to take from the channel
C5_Witness ==
    /\ phase = "pipeline"
    /\ reader = "ok"
    /\ ~txOpen
    /\ writer = "running"
    /\ Len(chan) = 2

(***************************************************************************)
(* C6                                                                      *)
(***************************************************************************)
\* position-major order of triples: s, then p, then o
LexLess(a, b) ==
    \/ a[1] < b[1]
    \/ a[1] = b[1] /\ a[2] < b[2]
    \/ a[1] = b[1] /\ a[2] = b[2] /\ a[3] < b[3]

\* an array in non-decreasing position-major order
LexSorted(v) == \A i, j \in 1 .. Len(v) : i < j => ~LexLess(v[j], v[i])

\* C6: on an array sorted in position-major order, contains(t) is true if
\* and only if t is at some index of the array
C6_Contains ==
    (lookup.asked /\ LexSorted(dataset)) =>
        (lookup.found <=> \E i \in 1 .. Len(dataset) : dataset[i] = lookup.triple)

\* contains has found the last triple of a sorted array of three records with
\* two different triples that agree in the subject
C6_Witness ==
    /\ lookup.asked
    /\ LexSorted(dataset)
    /\ Len(dataset) = 3
    /\ dataset[1] # dataset[3]
    /\ dataset[1][1] = dataset[3][1]
    /\ lookup.triple = dataset[3]
    /\ lookup.found

(***************************************************************************)
(* C7                                                                      *)
(***************************************************************************)
\* how often a triple occurs in an array
Occurrences(v, t) == Cardinality({i \in 1 .. Len(v) : v[i] = t})

\* C7: the sort subcommand leaves the file with as many records as before
\* and with every triple as often as before, in non-decreasing position-major
\* order, and is_sorted holds of it
C7_Sort ==
    sorting = "done" =>
        /\ Len(dataset) = Len(unsorted)
        /\ \A t \in CompressedTriples : Occurrences(dataset, t) = Occurrences(unsorted, t)
        /\ LexSorted(dataset)
        /\ is_sorted(dataset)

\* a file of three records, one triple twice, not in order before the sort
C7_Witness ==
    /\ sorting = "done"
    /\ Len(unsorted) = 3
    /\ ~LexSorted(unsorted)
    /\ Cardinality(Range(unsorted)) = 2
    /\ dataset # unsorted

(***************************************************************************)
(* C8                                                                      *)
(***************************************************************************)
\* the state file as written: the number of header records, the fields of
\* the i-th record, and the data segment
Records == dictFile.cells[1] \div RecordSize
RecordId(i) == dictFile.cells[1 + 3 * (i - 1) + 1]
RecordStart(i) == dictFile.cells[1 + 3 * (i - 1) + 2]
RecordEnd(i) == dictFile.cells[1 + 3 * (i - 1) + 3]
Data == SubSeq(dictFile.cells, 2 + 3 * Records, Len(dictFile.cells))

\* C8: in the file save_state wrote, the header records are strictly
\* ascending by TermId, there is one for every entry of the dictionary, the
\* first start offset is 0, the end of every record is the start of the
\* next, the offsets lie within the data segment, and the bytes between the
\* offsets of a record are the bytes stored for its id
C8_DictionaryOrder ==
    dictFile.exists =>
        /\ dictFile.cells[1] = Records * RecordSize
        /\ Len(dictFile.cells) >= 1 + 3 * Records
        /\ {RecordId(i) : i \in 1 .. Records} = DOMAIN savedTranslations
        /\ \A i \in 1 .. (Records - 1) : RecordId(i) < RecordId(i + 1)
        /\ Records >= 1 => (RecordStart(1) = 0 /\ RecordEnd(Records) = Len(Data))
        /\ \A i \in 1 .. (Records - 1) : RecordEnd(i) = RecordStart(i + 1)
        /\ \A i \in 1 .. Records :
              /\ RecordStart(i) <= RecordEnd(i)
              /\ RecordEnd(i) <= Len(Data)
              /\ SubSeq(Data, RecordStart(i) + 1, RecordEnd(i)) = savedTranslations[RecordId(i)]

\* a saved dictionary of four terms, one of them of three bytes
C8_Witness ==
    /\ dictFile.exists
    /\ Records = 4
    /\ \E i \in 1 .. Records : RecordEnd(i) - RecordStart(i) = 3

(***************************************************************************)
(* C9                                                                      *)
(***************************************************************************)
\* a dictionary saved, loaded and made mutable again
Reloaded(dict) == from_decompressor(load_state(save_state(dict)))

\* this step is the reader thread's on a line that is a triple whose three
\* ids the dictionary has, in a run that began with a reloaded dictionary
InternsPresent ==
    /\ phase = "pipeline"
    /\ flags.previous
    /\ reader = "running"
    /\ pos < Len(call.input)
    /\ pos' = pos + 1
    /\ ReaderGot.kind = "triple"
    /\ \A k \in 1 .. 3 : HandledTriple[k] \in DOMAIN translations

\* C9: every dictionary a compressor reaches is the same after save_state,
\* load_state and from_decompressor; the state file reloads to the entries
\* saved, and a compressor loaded from it starts with them; interning a term
\* whose TermId is present changes no entry and adds none (the TermId, the
\* hash of the bytes, is the same as before)
C9_ReloadKeepsEntries ==
    /\ [](Alive => Reloaded(translations) = translations)
    /\ [](dictFile.exists =>
              from_decompressor(load_state(dictFile.cells)) = savedTranslations)
    /\ [][(phase = "idle" /\ phase' = "compress" /\ flags'.previous)
            => translations' = savedTranslations]_vars
    /\ [][InternsPresent =>
            /\ translations' = translations
            /\ \A k \in 1 .. 3 :
                  or_insert(translations, HandledTriple[k], ReaderGot.terms[k]) = translations]_vars

\* a compressor loaded from a saved dictionary of three terms has interned the
\* three terms of a line again, and its dictionary is the saved one
C9_Witness ==
    /\ phase = "pipeline"
    /\ flags.previous
    /\ pos = 1
    /\ reader = "running"
    /\ Len(AcceptedTerms(<<call.input[1]>>, call.parse)) = 1
    /\ Cardinality(DOMAIN savedTranslations) = 3
    /\ \A k \in 1 .. 3 :
          /\ Accepted(<<call.input[1]>>, call.parse)[1][k] \in DOMAIN savedTranslations
          /\ savedTranslations[Accepted(<<call.input[1]>>, call.parse)[1][k]]
                 = AcceptedTerms(<<call.input[1]>>, call.parse)[1][k]
    /\ translations = savedTranslations

(***************************************************************************)
(* C10                                                                     *)
(***************************************************************************)
RECURSIVE Sum(_)
Sum(ns) == IF ns = <<>> THEN 0 ELSE Head(ns) + Sum(Tail(ns))

\* the triples returned so far, batch after batch
Returned_triples == Concat(batches)

\* C10 as stated: when the size hints total at most the size of the dataset,
\* the batches a random_distinct generator returned hold no triple twice,
\* neither within a batch nor across batches
C10_Disjoint ==
    (generator = "ready" /\ Sum(hints) <= Len(triples)) =>
        \A i, j \in 1 .. Len(Returned_triples) :
            i # j => Returned_triples[i] # Returned_triples[j]

(***************************************************************************)
(* The order of the slots of a generate run.                               *)
(***************************************************************************)
\* a generate run with the order SortedSizeAscAlternateInsertDelete
Alternating == job.fn = "generate_queries" /\ job.order = "SortedSizeAscAlternateInsertDelete"

\* the slots of one type, in their order
RECURSIVE SlotsOf(_, _)
SlotsOf(slots, query_type) ==
    IF slots = <<>> THEN <<>>
    ELSE (IF Head(slots).query_type = query_type THEN <<Head(slots)>> ELSE <<>>)
             \o SlotsOf(Tail(slots), query_type)

NonDecreasing(slots) == \A i \in 1 .. (Len(slots) - 1) : slots[i].size <= slots[i + 1].size

\* C11: under SortedSizeAscAlternateInsertDelete with an even number of
\* expanded slots the run does not fail, the slot sequence alternates
\* InsertData, DeleteData, ... beginning with InsertData, and the InsertData
\* slots and the DeleteData slots are each non-decreasing in size
C11_Alternates ==
    (Alternating /\ Len(expanded) % 2 = 0) =>
        /\ emitting # "err"
        /\ \A i \in 1 .. Len(ordered) :
               ordered[i].query_type = IF i % 2 = 1 THEN "InsertData" ELSE "DeleteData"
        /\ NonDecreasing(SlotsOf(ordered, "InsertData"))
        /\ NonDecreasing(SlotsOf(ordered, "DeleteData"))

\* a run of four slots whose InsertData slots were given in decreasing size
C11_Witness ==
    /\ Alternating
    /\ Len(ordered) = 4
    /\ expanded[1].query_type = "InsertData"
    /\ expanded[2].query_type = "InsertData"
    /\ expanded[1].size > expanded[2].size

\* C12: under SortedSizeAscAlternateInsertDelete with an odd number of
\* expanded slots generate_queries fails, the triple generator was not
\* called, and the query file and the prepare file are as they were
C12_OddFails ==
    (Alternating /\ Len(expanded) % 2 = 1) =>
        /\ emitting = "err"
        /\ factory = <<>>
        /\ written = <<>>
        /\ out_file = before.out
        /\ prepare_file = before.prepare

\* such a run without append, the query file there before and the prepare
\* file not
C12_Witness ==
    /\ Alternating
    /\ Len(expanded) = 3
    /\ emitting = "err"
    /\ ~job.append
    /\ out_file = File(Previous)
    /\ prepare_file = NoFile

(***************************************************************************)
(* The lines of a query, as the specification spells them.                 *)
(***************************************************************************)
\* the terms S, P, O a compressed triple of the datasets stands for
Spelled(triple) ==
    CHOOSE terms \in {TermsOf(LineABC), TermsOf(LineAPC)} : TripleOf(terms) = triple

\* "S P O" followed by an end, for every triple in turn
RECURSIVE SpelledTriples(_, _)
SpelledTriples(query, end) ==
    IF query = <<>> THEN <<>>
    ELSE Spelled(Head(query))[1] \o <<SP>> \o Spelled(Head(query))[2] \o <<SP>>
             \o Spelled(Head(query))[3] \o end \o SpelledTriples(Tail(query), end)

\* INSERT DATA { S P O . ... }\n and DELETE DATA { S P O . ... }\n
InsertLine(query) == INSERT_DATA \o SpelledTriples(query, <<SP, DOT, SP>>) \o CLOSE
DeleteLine(query) == DELETE_DATA \o SpelledTriples(query, <<SP, DOT, SP>>) \o CLOSE
\* S P O .\n for every triple
NTriplesLines(query) == SpelledTriples(query, <<SP, DOT, NL>>)

\* a step of a generate run that writes a slot (and does not panic in it)
SlotWritten ==
    /\ job.fn = "generate_queries"
    /\ emitting = "writing"
    /\ emitting' = "writing"
    /\ Len(written') = Len(written) + 1

\* C13: generate_queries writes the slots in the reordered order; a
\* DeleteData slot appends one DELETE DATA line to the main output and
\* nothing to the prepare output; an InsertData slot appends one INSERT DATA
\* line to the main output and, for the same triples in the same order, one
\* DELETE DATA line (prepare format Query) or one S P O . line per triple
\* (prepare format NTriples) to the prepare output
C13_Emission ==
    [][SlotWritten =>
        LET k == Len(written')
            q == written'[k]
        IN  /\ k <= Len(ordered)
            /\ q.query_type = ordered[k].query_type
            /\ factory'[k] = ordered[k].size
            /\ IF q.query_type = "DeleteData"
               THEN /\ out_file'.data = out_file.data \o DeleteLine(q.triples)
                    /\ prepare_file' = prepare_file
               ELSE /\ out_file'.data = out_file.data \o InsertLine(q.triples)
                    /\ prepare_file'.data =
                          prepare_file.data \o
                              (IF job.prepare_writer = "Query" THEN DeleteLine(q.triples)
                               ELSE NTriplesLines(q.triples))]_vars

\* a run with the prepare format NTriples has written a DeleteData slot and
\* then an InsertData slot of two triples
C13_Witness ==
    /\ job.fn = "generate_queries"
    /\ job.prepare_writer = "NTriples"
    /\ emitting = "ok"
    /\ Len(written) = 2
    /\ written[1] = [query_type |-> "DeleteData", triples |-> <<TripleABC>>]
    /\ written[2] = [query_type |-> "InsertData", triples |-> <<TripleABC, TripleAPC>>]

(***************************************************************************)
(* The replicate writer.                                                   *)
(***************************************************************************)
\* a step of a replicate run that writes an input (and does not panic in it)
InputWritten ==
    /\ job.fn = "generate_linear_no_size_hint"
    /\ emitting = "writing"
    /\ emitting' = "writing"
    /\ Len(written') = Len(written) + 1

\* C14: a replicate run with the output format Query writes one line for
\* every input, in input order: an INSERT DATA line for an input classified
\* InsertData, a DELETE DATA line for an input classified DeleteData
C14_GivenType ==
    [][(InputWritten /\ job.output_format = "Query") =>
        LET k == Len(written')
            q == written'[k]
        IN  /\ q.query_type = given[k].query_type
            /\ out_file'.data =
                  out_file.data \o (IF q.query_type = "InsertData" THEN InsertLine(q.triples)
                                    ELSE DeleteLine(q.triples))]_vars

\* the triples of an input that are not in the exclude dataset, each as often
\* as the input has it and in the input's order
RECURSIVE NotExcluded(_)
NotExcluded(in_triples) ==
    IF in_triples = <<>> THEN <<>>
    ELSE IF job.exclude_dataset.some /\ Head(in_triples) \in Range(job.exclude_dataset.triples)
         THEN NotExcluded(Tail(in_triples))
         ELSE <<Head(in_triples)>> \o NotExcluded(Tail(in_triples))

UsedBefore(k) == {calls[j].used_ix : j \in 1 .. (k - 1)}
UnusedBefore(k) == (0 .. (Len(changesets) - 1)) \ UsedBefore(k)
\* how far the length of a changeset is from the size_hint of the k-th call
Distance(ix, k) ==
    LET len == Len(changesets[ix + 1])
        hint == calls[k].size_hint
    IN  IF len >= hint THEN len - hint ELSE hint - len

\* C16: every call of the as_is closure returns, whole, the changeset not
\* returned before whose length is nearest to size_hint, the one of lowest
\* index among the nearest, and marks it used: no changeset is returned
\* twice, and the call made when all are used fails
C16_AsIs ==
    changeset_generator \in {"as_is", "panic"} =>
        /\ \A k \in 1 .. Len(calls) :
              IF UnusedBefore(k) = {}
              THEN calls[k].status = "panic"
              ELSE /\ calls[k].status = "ok"
                   /\ calls[k].used_ix \in UnusedBefore(k)
                   /\ \A other \in UnusedBefore(k) :
                         \/ Distance(calls[k].used_ix, k) < Distance(other, k)
                         \/ /\ Distance(calls[k].used_ix, k) = Distance(other, k)
                            /\ calls[k].used_ix <= other
                   /\ calls[k].batch = changesets[calls[k].used_ix + 1]
        /\ \A j, k \in 1 .. Len(calls) :
              (j # k /\ calls[j].status = "ok" /\ calls[k].status = "ok")
                  => calls[j].used_ix # calls[k].used_ix
        /\ used = {calls[k].used_ix : k \in {j \in 1 .. Len(calls) : calls[j].status = "ok"}}

\* three changesets, the first and the last as near to the first size_hint,
\* the first returned whole though longer than the hint; the fourth call fails
C16_Witness ==
    /\ Len(changesets) = 3
    /\ Len(calls) = 4
    /\ calls[4].status = "panic"
    /\ calls[1].size_hint = 1
    /\ Len(changesets[1]) = 2
    /\ Len(changesets[2]) = 2
    /\ Len(changesets[3]) = 0
    /\ calls[1].used_ix = 0
    /\ calls[2].used_ix = 2

\* changesets[start..] forward, then changesets[start - 1], ..., changesets[0]
Wrapped ==
    LET n == Len(changesets)
    IN  [i \in 1 .. n |-> IF i <= n - start_off THEN changesets[start_off + i]
                          ELSE changesets[n - i + 1]]

RECURSIVE InDataset(_)
InDataset(in_triples) ==
    IF in_triples = <<>> THEN <<>>
    ELSE IF Head(in_triples) \in Range(main_dataset)
         THEN <<Head(in_triples)>> \o InDataset(Tail(in_triples))
         ELSE InDataset(Tail(in_triples))

\* the one sequence all calls of a fixed_size closure take their triples from
FixedSequence == InDataset(Concat(Wrapped))

\* C17: every call of the fixed_size closure returns the first size_hint
\* elements of the same sequence: the changesets from start forward, then
\* those before start in reverse, flattened, restricted to the triples of
\* the sorted dataset; so every returned triple is in the dataset, at most
\* size_hint are returned, and the batch of a smaller size_hint is a prefix
\* of the batch of a larger one
C17_FixedSize ==
    changeset_generator = "fixed_size" =>
        /\ start_off \in 0 .. (Len(changesets) - 1)
        /\ \A k \in 1 .. Len(calls) :
              /\ calls[k].status = "ok"
              /\ Len(calls[k].batch) <= calls[k].size_hint
              /\ IsPrefix(calls[k].batch, FixedSequence)
              /\ \/ Len(calls[k].batch) = calls[k].size_hint
                 \/ calls[k].batch = FixedSequence
              /\ Range(calls[k].batch) \subseteq Range(main_dataset)
        /\ \A j, k \in 1 .. Len(calls) :
              calls[j].size_hint <= calls[k].size_hint
                  => IsPrefix(calls[j].batch, calls[k].batch)

\* a closure that starts at the second of three changesets, called with the
\* hints 2 and 1: the second batch ends with a triple of the first changeset,
\* and a p c is not in the dataset
C17_Witness ==
    /\ changeset_generator = "fixed_size"
    /\ changesets = << <<TripleABC>>, <<TripleAPC, TripleABC>>, <<TripleAPC>> >>
    /\ main_dataset = <<TripleABC>>
    /\ start_off = 1
    /\ Len(calls) = 2
    /\ calls[1].batch = <<TripleABC, TripleABC>>
    /\ calls[2].batch = <<TripleABC>>

(***************************************************************************)
(* The files of the writers.                                               *)
(***************************************************************************)
\* what a file held before the call, if the call was to append to it
KeptBefore(file) == IF job.append /\ file.exists THEN file.data ELSE <<>>

\* C18: after a call of a writer (the query output and the prepare output of
\* a generate run, the query output or the N-Triples output of a replicate
\* run) the file exists; with append it holds its previous content followed
\* by the bytes the call emitted, without append those bytes alone
C18_AppendOrTruncate ==
    emitting = "ok" =>
        /\ out_file.exists
        /\ out_file.data = KeptBefore(before.out) \o emitted.out
        /\ IF job.fn = "generate_queries"
           THEN /\ prepare_file.exists
                /\ prepare_file.data = KeptBefore(before.prepare) \o emitted.prepare
           ELSE prepare_file = before.prepare

\* a generate run with append: the query file held content, the prepare file
\* was missing, and both received bytes
C18_Witness ==
    /\ emitting = "ok"
    /\ job.fn = "generate_queries"
    /\ job.append
    /\ before.out = File(Previous)
    /\ before.prepare = NoFile
    /\ emitted.out # <<>>
    /\ emitted.prepare # <<>>

(***************************************************************************)
(* The failures of compress_rdf_triple_file.                               *)
(***************************************************************************)
\* C19: compress_rdf_triple_file goes on to read its input only when no file
\* is at the output path; when one is, the call fails with no line read, and
\* the files, the dictionary and the dedup set are as they were
C19_Collision ==
    [][/\ (phase = "compress" /\ phase' = "pipeline") => ~outFile[call'.path].exists
       /\ (phase = "compress" /\ phase' = "failed") =>
             /\ outFile[call'.path].exists
             /\ result' = "err"
             /\ pos' = 0
             /\ outFile' = outFile
             /\ translations' = translations
             /\ dedup' = dedup]_vars

\* the call failed on a file that holds records, the compressor holding
\* terms and hashes
C19_Witness ==
    /\ phase = "failed"
    /\ outFile[call.path].data # <<>>
    /\ DOMAIN translations # {}
    /\ dedup # {}

\* C20: when a write of the writer thread to the output file fails, the
\* reader thread does not run forever, both threads are joined and the call
\* returns, and what it returns is the error, not Ok(())
C20_WriterFailure ==
    /\ [](ioError => result \in {"none", "err"})
    /\ (ioError /\ phase = "pipeline") ~> (phase # "pipeline")

\* a failure that write_all returns to the writer thread does end the reader
\* thread and the call, and the call returns the error
WriteAllFailure ==
    /\ [][(phase = "pipeline" /\ phase' # "pipeline" /\ writer = "err") => result' = "err"]_vars
    /\ (writer = "err") ~> (phase # "pipeline")


(***************************************************************************)
(* The batches of random_distinct_triple_generator.                        *)
(***************************************************************************)
\* the triples the calls before the k-th returned
TakenBefore(k) == Sum([i \in 1 .. (k - 1) |-> Len(batches[i])])

\* the indices the k-th call has left to take
Remaining(k) == total - TakenBefore(k)

\* C21: the sample is total indices of the dataset in strictly ascending
\* order; the k-th call with size_hint n returns the triples at the next
\* min(n, remaining) indices of it, so the indices of the returned triples,
\* call after call, are strictly increasing and never more than total, and
\* a call made once the sample is exhausted returns an empty batch
C21_Batches ==
    generator = "ready" =>
        /\ Len(ixs) = total
        /\ \A i \in 1 .. Len(ixs) : ixs[i] \in 0 .. (Len(triples) - 1)
        /\ \A i, j \in 1 .. Len(ixs) : i < j => ixs[i] < ixs[j]
        /\ \A k \in 1 .. Len(batches) :
              /\ Len(batches[k])
                     = IF hints[k] <= Remaining(k) THEN hints[k] ELSE Remaining(k)
              /\ \A j \in 1 .. Len(batches[k]) :
                     batches[k][j] = triples[ixs[TakenBefore(k) + j] + 1]
              /\ Remaining(k) = 0 => batches[k] = <<>>
        /\ Len(Returned_triples) <= total
        /\ taken = Len(Returned_triples)

\* a sample that skips a record of the dataset, and three calls: the first
\* returns what it is asked for, the second the short tail, the third, the
\* sample being exhausted, nothing
C21_Witness ==
    /\ generator = "ready"
    /\ Len(triples) = 3
    /\ ixs = <<0, 2>>
    /\ triples[1] # triples[3]
    /\ hints = <<1, 2, 1>>
    /\ batches = << <<triples[1]>>, <<triples[3]>>, <<>> >>


(***************************************************************************)
(* The dictionary of a compressor instance.                                *)
(***************************************************************************)
\* a compressor instance lives through the step
SameInstance ==
    /\ phase \in {"compress", "pipeline", "failed"}
    /\ phase' \in {"compress", "pipeline", "failed"}

\* this step is the reader thread's, on a line that is a triple: its three
\* terms are interned
Interning ==
    /\ phase = "pipeline"
    /\ reader = "running"
    /\ pos < Len(call.input)
    /\ pos' = pos + 1
    /\ ReaderGot.kind = "triple"

\* the first of the three terms that has the id
FirstWith(terms, id) ==
    terms[CHOOSE k \in 1 .. 3 :
              /\ hash_single(terms[k]) = id
              /\ \A j \in 1 .. (k - 1) : hash_single(terms[j]) # id]

\* C22: interning a term whose TermId is present leaves the bytes stored
\* under that id as they are, and the id returned is the TermId of the term;
\* an id that is absent gets the first term interned with it; so while a
\* compressor instance lives no entry of its dictionary is removed or altered,
\* and of two distinct terms with one TermId the dictionary keeps the first
C22_Idempotent ==
    [][/\ SameInstance =>
             \A id \in DOMAIN translations :
                 /\ id \in DOMAIN translations'
                 /\ translations'[id] = translations[id]
       /\ Interning =>
             /\ DOMAIN translations' = DOMAIN translations \cup Range(HandledTriple)
             /\ \A k \in 1 .. 3 :
                    translations'[HandledTriple[k]] =
                        IF HandledTriple[k] \in DOMAIN translations
                        THEN translations[HandledTriple[k]]
                        ELSE FirstWith(ReaderGot.terms, HandledTriple[k])
             /\ sent' # sent => sent' = Append(sent, HandledTriple)]_vars

\* the line a p b was interned, then the line i p b: i has the TermId of a,
\* p and b are present, and the dictionary holds a, p and b as before
C22_Witness ==
    /\ phase = "pipeline"
    /\ call.input = <<LineABC, LineIBC>>
    /\ ~call.parse
    /\ pos = 2
    /\ hash_single(<<105>>) = hash_single(<<97>>)
    /\ translations = compress_raw_rdf_triple(EmptyMap, TermsOf(LineABC))
    /\ translations[hash_single(<<105>>)] = <<97>>
    /\ Len(sent) = 2


(***************************************************************************)
(* The slots of a generate run, before and after the match on order.       *)
(***************************************************************************)
\* generate_queries went past the match on order without an error
Reordered == job.fn = "generate_queries" /\ emitting \in {"writing", "ok", "panic"}

\* the reordered slots are a permutation of the expanded slots
SlotsConserved ==
    /\ Len(ordered) = Len(expanded)
    /\ \A slot \in Range(expanded) \cup Range(ordered) :
           Occurrences(ordered, slot) = Occurrences(expanded, slot)

\* C23: under every order that does not return an error the reordered slot
\* list is a permutation of the expanded one, one slot for every requested
\* query, and a run that returns Ok(()) has written as many queries as the
\* specs ask for
C23_SlotConservation ==
    Reordered =>
        /\ SlotsConserved
        /\ emitting = "ok" => Len(written) = Len(expanded)

\* the slots are conserved under every order but the alternating one, and
\* under that one when as many InsertData as DeleteData slots are asked for;
\* with more of one type the surplus slots are left out, and only then
ConservedWhenBalanced ==
    Reordered =>
        /\ (/\ job.order = "SortedSizeAscAlternateInsertDelete"
            /\ Len(SlotsOf(expanded, "InsertData")) # Len(SlotsOf(expanded, "DeleteData")))
               <=> ~SlotsConserved
        /\ emitting = "ok" => Len(written) = Len(ordered)
        /\ Len(ordered) <= Len(expanded)


(***************************************************************************)
(* The ids of the compressed files and the dictionary.                     *)
(***************************************************************************)
\* the TermIds of a sequence of compressed triples
IdsOf(compressed) == UNION {Range(compressed[i]) : i \in 1 .. Len(compressed)}

\* the dictionary as a decompress run loads it from the state file
SavedFrozen == load_state(dictFile.cells)

\* C24: while compress_rdf_triple_file runs, every TermId of every triple
\* sent to the channel, queued in it or written to the output file is a key
\* of the compressor's dictionary, and so is every TermId of every file the
\* instance has made; so the dictionary that save_state writes resolves every
\* id of every such file: decompress_rdf_triple returns None for no triple of
\* them, and a decompress run on such a file does not fail
C24_Closure ==
    /\ phase = "pipeline" =>
          IdsOf(sent) \cup IdsOf(chan) \cup IdsOf(outFile[call.path].data)
              \subseteq DOMAIN translations
    /\ phase \in {"compress", "pipeline", "failed"} =>
          \A p \in made : IdsOf(outFile[p].data) \subseteq DOMAIN translations
    /\ dictFile.exists =>
          \A p \in dictMade :
              \A i \in 1 .. Len(outFile[p].data) :
                  decompress_rdf_triple(SavedFrozen, outFile[p].data[i]).some
    /\ (phase = "decompress" /\ sink.status # "none" /\ sink.path \in made) =>
          sink.status = "ok"

\* the state file was saved with two files made, the last with an id that
\* another has not, and a decompress run wrote the triples of the last
C24_Witness ==
    /\ phase = "decompress"
    /\ Cardinality(dictMade) = 2
    /\ sink.status = "ok"
    /\ sink.path = call.path
    /\ sink.path \in made
    /\ sink.bytes # <<>>
    /\ \E p \in made : IdsOf(outFile[call.path].data) \ IdsOf(outFile[p].data) # {}

=============================================================================
